---- MODULE Spec2Model ----
(***************************************************************************)
(* A model of the course-portfolio scripts of regis_std:                   *)
(*   scripts/process_csv.py        CSV row -> profile.md (create / merge)  *)
(*   scripts/sync-to-portfolio.py  profile.md -> metadata, sections, page  *)
(*                                                                         *)
(* TEXT.  A text is a sequence of tokens.  Every token stands for one      *)
(* fixed, non-empty piece of text, so two token sequences are equal        *)
(* exactly when the texts are byte-for-byte equal.  The tokens that the    *)
(* regular expressions and string methods of the scripts can tell apart    *)
(* are kept apart:                                                         *)
(*   "NL"  a newline              "SP"  a blank                            *)
(*   "BS"  a backslash            "Q"   a double quote                     *)
(*   "---" the front-matter delimiter                                      *)
(*   "## ..." a heading marker together with its heading text              *)
(*   "current_course:" etc.  a front-matter key with its colon and blank   *)
(* Every other token is a run of ordinary characters (no newline, quote,   *)
(* backslash, '## ' or '---' inside).                                      *)
(***************************************************************************)
EXTENDS Integers, Sequences, FiniteSets, TLC

VARIABLES
    profile,      \* data/students/<username>/profile.md: [exists, text]
    prev,         \* profile.md as it was before the last CSV row was processed
    row,          \* the last CSV row handed to create_student_folder_structure
    outcome,      \* "none" | "written" | "raised" : how that call ended
    path,         \* "none" | "new" | "replace" | "insert" | "append"
    rows,         \* number of CSV rows processed so far
    students_processed,  \* process_csv_file: the counter of that name
    errors,              \* process_csv_file: the row numbers of the error messages
    students_data,       \* process_csv_file: the rows kept for the course JSON
    json_file,           \* the course JSON as process_csv_file wrote it at its end
    example_files,       \* the PDF files copied into the student's directory
    merged,              \* whether the student had no profile.md at the start, and
                         \* the courses whose row has been written into it since
    content,      \* the text of the profile.md that sync_student_data reads
    pc,           \* "idle" | "read" | "parsed" | "sectioned" | "done" | "raised" |
                  \* "page1" | "finished" | "synced"
    metadata,     \* first result of parse_markdown_profile
    md_content,   \* second result of parse_markdown_profile
    parsed_sections,     \* result of parse_markdown_sections
    section_keys,        \* current_section after each heading line, in order
    records,             \* what the extractors made of the saved sections
    student_files,       \* what find_student_files returned for the student
    base_student_data,   \* the entry built by sync_student_data
    page,                \* <username>.html as create_html_page wrote it last
    data_dir,            \* data/ on disk: the student's reports/ and presentations/
                         \* and the student's entry in 2025_summer_msds692.json
    sync_runs,           \* number of the run of sync_student_data under way
    first_run            \* the first run: data/ as it found it, the arguments of
                         \* its last create_html_page and the page it left

mergeVars ==
    <<profile, prev, row, outcome, path, rows, students_processed, errors, students_data,
      json_file, example_files, merged>>

syncVars ==
    <<content, pc, metadata, md_content, parsed_sections, section_keys, records,
      student_files, base_student_data, page, data_dir, sync_runs, first_run>>

vars == <<mergeVars, syncVars>>

----------------------------------------------------------------------------
(* Tokens *)

NL == "NL"
SP == "SP"
BS == "BS"
Q  == "Q"
FM == "---"

\* A bullet line begins with '- '; a markdown link is LB text MID url RB.
BULLET == "- "
LB == "["
MID == "]("
RB == ")"
COMMA == ","

H692 == "## MSDS 692 - Practicum I"
H696 == "## MSDS 696 - Practicum II"
HContact == "## Contact"
HAbout == "## About Me"
HSkills == "## Skills"
HAboutShort == "## About"
HAboutSkills == "## About My Skills"
HExperience == "## Experience"
HNotes == "## Notes"
HMixed == "## MSDS 692 - Practicum II"
HCapstone == "## MSDS 696 Capstone"
HAboutPracticum == "## About Practicum II"

\* Tokens whose text begins with '## '.
HeadingToks ==
    {H692, H696, HContact, HAbout, HSkills, HAboutShort, HAboutSkills, HExperience, HNotes,
     HMixed, HCapstone, HAboutPracticum}

IsHeading(t) == t \in HeadingToks

Whitespace == {NL, SP}

----------------------------------------------------------------------------
(* Generic string helpers (Python str methods on token sequences) *)

\* The least element of a non-empty set of positions.
Least(S) == CHOOSE k \in S : \A j \in S : k <= j

\* The greatest element of a non-empty set of positions.
Greatest(S) == CHOOSE k \in S : \A j \in S : j <= k

RStrip(s) ==
    LET keep == {i \in 1..Len(s) : s[i] \notin Whitespace}
    IN  IF keep = {} THEN <<>> ELSE SubSeq(s, 1, Greatest(keep))

LStrip(s) ==
    LET keep == {i \in 1..Len(s) : s[i] \notin Whitespace}
    IN  IF keep = {} THEN <<>> ELSE SubSeq(s, Least(keep), Len(s))

Strip(s) == LStrip(RStrip(s))

\* str.lower() of one token; the other tokens of a title or a practicum
\* number have no upper-case letter.
LowerTok(t) ==
    IF t = "W" THEN "w"
    ELSE IF t = "I" THEN "i"
    ELSE IF t = "II" THEN "ii"
    ELSE t

Lower(s) == [i \in 1..Len(s) |-> LowerTok(s[i])]

----------------------------------------------------------------------------
(* Regular-expression helpers of process_csv.py *)

\* The lookahead (?=\n## |$) at position p of s.  Without re.MULTILINE, $
\* matches at the very end and just before a newline that ends the text.
SectionEndAt(s, p) ==
    \/ p > Len(s)
    \/ p = Len(s) /\ s[p] = NL
    \/ p < Len(s) /\ s[p] = NL /\ IsHeading(s[p + 1])

\* The lazy group (.*?) under re.DOTALL, started at p: the first position
\* at or after p where the lookahead succeeds (the match ends before it).
LazyBodyEnd(s, p) ==
    Least({e \in p..(Len(s) + 1) : SectionEndAt(s, e)})

\* A heading of `heads` followed by '\n\n', at position i of s.
HeadingAt(s, i, heads) ==
    /\ i + 2 <= Len(s)
    /\ s[i] \in heads
    /\ s[i + 1] = NL
    /\ s[i + 2] = NL

\* Group 1, (MSDS \d+), of a heading matched by the pattern of line 91.
CourseOfHeading(h) == IF h = H692 THEN "MSDS 692" ELSE "MSDS 696"

\* No practicum section is ever found.
FindPractica_none(s, i) == <<>>

\* re.findall(practicum_pattern, content, re.DOTALL): group 1 of every
\* non-overlapping match, left to right.
RECURSIVE FindPractica(_, _)
FindPractica(s, i) ==
    LET at == {k \in i..Len(s) : HeadingAt(s, k, {H692, H696})}
    IN  IF at = {} THEN <<>>
        ELSE <<CourseOfHeading(s[Least(at)])>>
                 \o FindPractica(s, LazyBodyEnd(s, Least(at) + 3))

\* Whether re accepts t as a replacement template: a backslash must be
\* followed by a character that forms a known escape (here '\\' and '\n');
\* a backslash before any other letter, or at the end, raises re.error.
RECURSIVE TemplateOk(_)
TemplateOk(t) ==
    LET at == {k \in 1..Len(t) : t[k] = BS}
    IN  IF at = {} THEN TRUE
        ELSE /\ Least(at) + 1 <= Len(t)
             /\ t[Least(at) + 1] \in {BS, "n"}
             /\ TemplateOk(SubSeq(t, Least(at) + 2, Len(t)))

\* The text a replacement template expands to: '\\' gives one backslash,
\* '\n' gives a newline.
RECURSIVE ExpandTemplate(_)
ExpandTemplate(t) ==
    LET at == {k \in 1..Len(t) : t[k] = BS}
    IN  IF at = {} THEN t
        ELSE SubSeq(t, 1, Least(at) - 1)
                 \o <<IF t[Least(at) + 1] = BS THEN BS ELSE NL>>
                 \o ExpandTemplate(SubSeq(t, Least(at) + 2, Len(t)))

\* re.sub(pattern, repl, s, flags=re.DOTALL) for the pattern of line 225,
\* (## <course> - Practicum <n>\n\n)(.*?)(?=\n## |$): every match, from the
\* heading to the end of the lazy body, becomes repl (already expanded).
RECURSIVE SubSection(_, _, _, _)
SubSection(s, i, head, repl) ==
    LET at == {k \in i..Len(s) : HeadingAt(s, k, {head})}
    IN  IF at = {} THEN SubSeq(s, i, Len(s))
        ELSE SubSeq(s, i, Least(at) - 1) \o repl
                 \o SubSection(s, LazyBodyEnd(s, Least(at) + 3), head, repl)

\* The pattern (\n## Contact\n) at position i of s.
ContactAt(s, i) ==
    /\ i + 2 <= Len(s)
    /\ s[i] = NL
    /\ s[i + 1] = HContact
    /\ s[i + 2] = NL

\* re.search(contact_pattern, s)
HasContact(s) == \E i \in 1..Len(s) : ContactAt(s, i)

\* re.sub(contact_pattern, repl, s): every non-overlapping match becomes repl.
RECURSIVE SubContact(_, _, _)
SubContact(s, i, repl) ==
    LET at == {k \in i..Len(s) : ContactAt(s, k)}
    IN  IF at = {} THEN SubSeq(s, i, Len(s))
        ELSE SubSeq(s, i, Least(at) - 1) \o repl \o SubContact(s, Least(at) + 3, repl)

\* The closing quote of ".*?" searched from j: the first quote reached
\* without crossing a newline ('.' does not match a newline); 0 if none.
ClosingQuote(s, j) ==
    LET stop == {k \in j..Len(s) : s[k] \in {Q, NL}}
    IN  IF stop = {} THEN 0
        ELSE IF s[Least(stop)] = Q THEN Least(stop) ELSE 0

\* re.sub(r'(<key> ".*?")', '<key> "<value>"', s): the pattern is searched
\* in the whole text s, and every match is replaced.
\* The pattern (<key> ".*?") at position i of s.
QuotedFieldAt(s, i, key) ==
    /\ s[i] = key
    /\ i + 1 <= Len(s)
    /\ s[i + 1] = Q
    /\ ClosingQuote(s, i + 2) # 0

RECURSIVE SubQuotedField(_, _, _, _)
SubQuotedField(s, i, key, value) ==
    LET at == {k \in i..Len(s) : QuotedFieldAt(s, k, key)}
    IN  IF at = {} THEN SubSeq(s, i, Len(s))
        ELSE SubSeq(s, i, Least(at) - 1) \o <<key, Q>> \o value \o <<Q>>
                 \o SubQuotedField(s, ClosingQuote(s, Least(at) + 2) + 1, key, value)

----------------------------------------------------------------------------
(* process_csv.py: the profile text *)

\* The one student of the model (profiles of different students are
\* independent files).
Username == "ada"

\* Tokens that contain '@'.
DomainToks == {"@regis.edu", "@worldclass.regis.edu", "@gmail.com"}

\* clean_email: the worldclass subdomain is removed, and any other domain
\* is replaced by @regis.edu.  An e-mail is <<local part, "@domain">>.
clean_email(email) ==
    IF email = <<>> THEN email
    ELSE LET e == [i \in 1..Len(email) |->
                      IF email[i] = "@worldclass.regis.edu" THEN "@regis.edu"
                      ELSE email[i]]
         IN IF /\ \A i \in 1..Len(e) : e[i] # "@regis.edu"
               /\ \E i \in 1..Len(e) : e[i] \in DomainToks
            THEN <<e[1], "@regis.edu">>
            ELSE e

\* course_number and practicum_number of create_markdown_profile.
CourseNumber(course_info) ==
    IF course_info.course = "msds692" THEN "MSDS 692" ELSE "MSDS 696"

PracticumNumber(course_info) ==
    IF course_info.course = "msds692" THEN "I" ELSE "II"

\* f'## {course_number} - Practicum {practicum_number}'
HeadingTok(course_number, practicum_number) ==
    IF course_number = "MSDS 692" /\ practicum_number = "I" THEN H692 ELSE H696

\* str.title() of the semester word, and the label
\* f"{course_info['semester'].title()} {course_info['year']}".
TitleCase(w) == IF w = "summer" THEN "Summer" ELSE "Fall"

SemesterLabel(course_info) ==
    <<TitleCase(course_info.semester), SP, course_info.year>>

\* int(course_info['year']) + 1, written back as text.
NextYear(y) == IF y = "2025" THEN "2026" ELSE "2027"

\* extract_project_tags: no title of the model carries one of the keywords,
\* so the generic tags are returned, joined by ', '.
extract_project_tags(project_title) == <<"Data Science", COMMA, SP, "Python", COMMA, SP, "Analytics">>

\* name.split(' '): the first part, and the other parts joined by ' '.
FirstPart(name) ==
    LET at == {k \in 1..Len(name) : name[k] = SP}
    IN  IF at = {} THEN name ELSE SubSeq(name, 1, Least(at) - 1)

LastParts(name) ==
    IF Len(FirstPart(name)) + 2 <= Len(name)
    THEN SubSeq(name, Len(FirstPart(name)) + 2, Len(name))
    ELSE <<>>

\* The practicum section written by lines 125-148, 227-251 and 256-280,
\* without the newlines that end it (one in a new profile, two in an update).
PracticumSection(student_data, course_info, tags) ==
    LET github == student_data.github
        pn == LowerTok(PracticumNumber(course_info))
    IN  <<HeadingTok(CourseNumber(course_info), PracticumNumber(course_info)), NL, NL,
          "**Title:**", SP>> \o student_data.title \o <<NL, NL,
          "**Semester:**", SP>> \o SemesterLabel(course_info) \o <<NL, NL,
          "**Tags:**", SP>> \o tags \o <<NL, NL,
          "**Abstract:**", SP, "This project focuses on", SP>> \o Lower(student_data.title)
             \o <<". Please update this section", NL, NL,
          "**Key Achievements:**", NL,
          BULLET, "Please add your key project achievements", NL,
          BULLET, "Include quantifiable results where possible", NL,
          BULLET, "Highlight technical innovations", NL, NL,
          "**Technologies Used:**", SP, "Please list the main technologies", NL, NL,
          "**Links:**", NL,
          BULLET, "GitHub Repository:", SP, LB>>
             \o (IF github # <<>> THEN github ELSE <<"Add your GitHub link">>)
             \o <<MID>> \o (IF github # <<>> THEN github ELSE <<"#">>) \o <<RB, NL,
          BULLET, "Project Report:", SP, LB, "Download Report", MID,
             "reports/", Username, "_practicum", pn, "_report.pdf", RB, NL,
          BULLET, "Presentation Slides:", SP, LB, "View Slides", MID,
             "presentations/", Username, "_practicum", pn, "_slides.pdf", RB, NL, NL,
          "*Please update the links above*">>

\* A front-matter line, key: "value"
QuotedLine(key, value) == <<key, Q>> \o value \o <<Q, NL>>

\* The new profile of lines 150-208.
NewProfile(student_data, course_info, tags) ==
    LET name == student_data.name
        email == clean_email(student_data.email)
    IN  <<FM, NL>>
        \o QuotedLine("name:", name)
        \o QuotedLine("firstName:", FirstPart(name))
        \o QuotedLine("lastName:", LastParts(name))
        \o QuotedLine("email:", email)
        \o QuotedLine("username:", <<Username>>)
        \o QuotedLine("github:", <<Username>>)
        \o QuotedLine("linkedin:", <<Username>>)
        \o QuotedLine("graduation:", <<"May", SP, NextYear(course_info.year)>>)
        \o QuotedLine("major:", <<"Data Science">>)
        \o QuotedLine("degree:", <<"Master of Science in Data Science">>)
        \o QuotedLine("university:", <<"Regis University">>)
        \o QuotedLine("current_course:", <<CourseNumber(course_info)>>)
        \o QuotedLine("current_semester:", SemesterLabel(course_info))
        \o <<FM, NL, NL,
             HAbout, NL, NL, "I am a dedicated Data Science graduate student", NL, NL,
             "*Please update this section with your personal background*", NL, NL,
             HSkills, NL, NL,
             "**Programming Languages:**", NL, BULLET, "Python - Intermediate", NL,
             BULLET, "R - Intermediate", SP, SP, NL, BULLET, "SQL - Intermediate", NL, NL,
             "**Data Science Tools:**", NL, BULLET, "Pandas, NumPy", NL,
             BULLET, "Matplotlib, Seaborn", NL, BULLET, "Scikit-learn", NL, NL,
             "**Technologies:**", NL, BULLET, "Jupyter Notebooks", NL, BULLET, "Git/GitHub", NL,
             BULLET, "Excel", NL, NL,
             "*Please update this section with your actual skills*", NL, NL>>
        \o PracticumSection(student_data, course_info, tags) \o <<NL, NL, NL,
             HContact, NL, NL,
             "**Email:**", SP>> \o email \o <<NL, NL,
             "**LinkedIn:**", SP, LB, "Connect with me", MID,
                "https://linkedin.com/in/", Username, RB, NL, NL,
             "**GitHub:**", SP, LB, "View my repositories", MID,
                "https://github.com/", Username, RB, NL, NL,
             "**Portfolio:**", SP, LB, "Visit my portfolio", MID,
                "https://your-portfolio-site.com", RB, NL, NL,
             "*Please update the links above with your actual URLs*", NL, NL,
             FM, NL, NL,
             "*This profile was auto-generated from CSV data*", NL>>

\* load_existing_profile: (content, existing_practica), or (None, []) when
\* the file does not exist.
load_existing_profile(file) ==
    IF ~file.exists THEN [content |-> <<>>, isNone |-> TRUE, practica |-> <<>>]
    ELSE [content |-> file.text, isNone |-> FALSE,
          practica |-> FindPractica(file.text, 1)]

\* update_existing_profile: [raised, text, path].
update_existing_profile(existing_content, existing_practica, student_data, course_info, practicum_number, tags) ==
    LET course_number == CourseNumber(course_info)
        practicum_exists ==
            \E k \in 1..Len(existing_practica) : existing_practica[k] = course_number
        new_section ==
            PracticumSection(student_data, course_info, tags) \o <<NL, NL>>
        head == HeadingTok(course_number, practicum_number)
        has_contact == HasContact(existing_content)
        \* re.sub compiles its replacement template, whether or not the
        \* pattern matches; the append branch uses no template.
        uses_template == practicum_exists \/ has_contact
        updated_content ==
            IF practicum_exists
            THEN SubSection(existing_content, 1, head, ExpandTemplate(new_section))
            ELSE IF has_contact
            THEN SubContact(existing_content, 1,
                            ExpandTemplate(<<NL>> \o new_section \o <<NL, HContact, NL>>))
            ELSE RStrip(existing_content) \o <<NL, NL>> \o new_section
        with_course ==
            SubQuotedField(updated_content, 1, "current_course:", <<course_number>>)
        with_semester ==
            SubQuotedField(with_course, 1, "current_semester:", SemesterLabel(course_info))
    IN  IF uses_template /\ ~TemplateOk(new_section)
        THEN [raised |-> TRUE, text |-> <<>>, path |-> "none"]
        ELSE [raised |-> FALSE, text |-> with_semester,
              path |-> IF practicum_exists THEN "replace"
                       ELSE IF has_contact THEN "insert" ELSE "append"]

\* create_markdown_profile: an update when both existing_content and
\* existing_practica are truthy, and a new profile otherwise.
create_markdown_profile(student_data, course_info, existing_content, existing_practica) ==
    LET tags == extract_project_tags(student_data.title)
    IN  IF existing_content # <<>> /\ existing_practica # <<>>
        THEN update_existing_profile(existing_content, existing_practica, student_data,
                                     course_info, PracticumNumber(course_info), tags)
        ELSE [raised |-> FALSE, text |-> NewProfile(student_data, course_info, tags),
              path |-> "new"]

----------------------------------------------------------------------------
(* process_csv.py: inputs *)

MaxRows == 2

\* Runs of sync_student_data.
MaxRuns == 2

CourseInfos ==
    [course : {"msds692", "msds696"}, semester : {"summer", "fall"}, year : {"2025"}]

Names == {<<"Ada", SP, "King">>, <<"Ada", SP, Q, "Ace", Q, SP, "King">>}

\* A plain title, a title with an escaped backslash pair, a title with a
\* backslash before a letter.
Titles == {<<"W">>, <<"w", BS, BS, "w">>, <<"w", BS, "w">>}

GitHubs == {<<>>, <<"https://github.com/ada/p">>}

BaseRow ==
    [name |-> <<"Ada", SP, "King">>, email |-> <<"ada", "@worldclass.regis.edu">>,
     title |-> <<"W">>, github |-> <<>>]

\* The CSV rows of the model: BaseRow with at most one column changed; the
\* last one has a blank Project Title.
CsvRows ==
    {BaseRow, [BaseRow EXCEPT !.title = <<SP>>]}
    \cup {[BaseRow EXCEPT !.name = n] : n \in Names}
    \cup {[BaseRow EXCEPT !.title = t] : t \in Titles}
    \cup {[BaseRow EXCEPT !.github = g] : g \in GitHubs}

\* Profiles written or edited by hand, block by block.
HandFrontMatters ==
    { <<FM, NL>> \o QuotedLine("name:", <<"Ada">>)
         \o QuotedLine("current_course:", <<"MSDS 692">>)
         \o QuotedLine("current_semester:", <<"Summer", SP, "2025">>)
         \o <<FM, NL, NL>>,
      <<FM, NL, "name:", "Ada", NL, "current_course:", "MSDS 692", NL,
        "current_semester:", "Summer", SP, "2025", NL, FM, NL, NL>> }

HandAbouts ==
    { <<HAbout, NL, NL, "w", NL, NL>>,
      <<HAbout, NL, NL, "w", SP, "current_course:", Q, "MSDS 500", Q, NL, NL>> }

HandPractica(h) ==
    { <<>>,
      <<h, NL, NL, "**Title:**", SP, "v", NL, NL>>,    \* an edited section
      <<h, NL, NL>>,                               \* a heading with no body
      <<h, NL, "**Title:**", SP, "v", NL, NL>> }      \* no blank line after the heading

HandContacts ==
    { <<>>, <<HContact, NL, NL, "**Email:**", SP, "ada", "@regis.edu", NL>> }

HandProfiles ==
    { f \o a \o p1 \o p2 \o c :
        f \in HandFrontMatters, a \in HandAbouts, p1 \in HandPractica(H692),
        p2 \in {<<>>, <<H696, NL, NL, "**Title:**", SP, "v", NL, NL>>}, c \in HandContacts }

NoFile == [exists |-> FALSE, text |-> <<>>]

----------------------------------------------------------------------------
(* sync-to-portfolio.py: parse_markdown_profile *)

\* A text that holds the delimiter, at its start or elsewhere.
StartsWithDelimiter_anywhere(s) == \E k \in 1..Len(s) : s[k] = FM

\* content.startswith('---')
StartsWithDelimiter(s) == s # <<>> /\ s[1] = FM

\* content.split('---', 2): the text is cut at its first two delimiters,
\* wherever they stand; one, two or three parts.
SplitHeader(s) ==
    LET at == {k \in 1..Len(s) : s[k] = FM}
    IN  IF at = {} THEN <<s>>
        ELSE LET a == Least(at)
                 rest == at \ {a}
             IN  IF rest = {}
                 THEN <<SubSeq(s, 1, a - 1), SubSeq(s, a + 1, Len(s))>>
                 ELSE <<SubSeq(s, 1, a - 1), SubSeq(s, a + 1, Least(rest) - 1),
                        SubSeq(s, Least(rest) + 1, Len(s))>>

\* s.split('\n'): the lines before and after a newline of s (the middle
\* one, which keeps the evaluation shallow).
RECURSIVE SplitLines(_)
SplitLines(s) ==
    LET at == {k \in 1..Len(s) : s[k] = NL}
        mid == CHOOSE p \in at :
                   Cardinality({q \in at : q < p}) = Cardinality(at) \div 2
    IN  IF at = {} THEN <<s>>
        ELSE SplitLines(SubSeq(s, 1, mid - 1)) \o SplitLines(SubSeq(s, mid + 1, Len(s)))

\* The keys a header block of the model can hold: each token is the key
\* with its colon and the blank after it.
HeaderKeys ==
    {"name:", "firstName:", "lastName:", "email:", "username:", "github:", "linkedin:",
     "graduation:", "major:", "degree:", "university:", "current_course:",
     "current_semester:", "semester:"}

\* Tokens that YAML resolves to an integer when they stand alone, unquoted.
IntToks == {"2025", "2026", "2027"}

YamlError == [type |-> "error", text |-> <<>>]

\* A double-quoted YAML scalar between its quotes: '\\' is a backslash; a
\* backslash before a letter that names no escape ('\w') is a scanner error.
RECURSIVE YamlUnescape(_)
YamlUnescape(v) ==
    LET at == {k \in 1..Len(v) : v[k] = BS}
    IN  IF at = {} THEN [type |-> "str", text |-> v]
        ELSE IF Least(at) + 1 > Len(v) \/ v[Least(at) + 1] # BS THEN YamlError
        ELSE LET rest == YamlUnescape(SubSeq(v, Least(at) + 2, Len(v)))
             IN  IF rest.type = "error" THEN YamlError
                 ELSE [type |-> "str",
                       text |-> SubSeq(v, 1, Least(at)) \o rest.text]

\* The value of a block-mapping entry, from the text v after 'key: ':
\* nothing is null; a double-quoted scalar must close at the end of the
\* line, and text after its closing quote is a parser error; a plain scalar
\* is an int when it is a number and a string otherwise, and may hold no
\* ': '.
YamlValue(v) ==
    LET t == Strip(v)
        inner == SubSeq(t, 2, Len(t) - 1)
    IN  IF t = <<>> THEN [type |-> "null", text |-> <<>>]
        ELSE IF t[1] = Q
        THEN IF /\ Len(t) >= 2
                /\ t[Len(t)] = Q
                /\ \A k \in 1..Len(inner) : inner[k] # Q
             THEN YamlUnescape(inner)
             ELSE YamlError
        ELSE IF \E k \in 1..Len(t) : t[k] \in HeaderKeys THEN YamlError
        ELSE IF Len(t) = 1 /\ t[1] \in IntToks THEN [type |-> "int", text |-> t]
        ELSE [type |-> "str", text |-> t]

\* yaml.safe_load(yaml_content) for the header blocks of the model, whose
\* lines are not indented: no content gives None; 'key: value' lines give a
\* mapping, a repeated key keeping its last value; text without a key gives
\* a scalar; a key line next to a line without a key, or an entry whose
\* value is not a scalar, raises yaml.YAMLError.
yaml_safe_load(yaml_content) ==
    LET lines == SplitLines(yaml_content)
        body == {k \in 1..Len(lines) : Strip(lines[k]) # <<>>}
        pairs == {k \in body : lines[k][1] \in HeaderKeys}
        value(k) == YamlValue(SubSeq(lines[k], 2, Len(lines[k])))
        keys == {lines[k][1] : k \in pairs}
    IN  IF body = {} THEN [kind |-> "none", map |-> [k \in {} |-> YamlError]]
        ELSE IF pairs = {} THEN [kind |-> "scalar", map |-> [k \in {} |-> YamlError]]
        ELSE IF pairs # body \/ \E k \in pairs : value(k).type = "error"
        THEN [kind |-> "error", map |-> [k \in {} |-> YamlError]]
        ELSE [kind |-> "map",
              map |-> [key \in keys |->
                          value(Greatest({k \in pairs : lines[k][1] = key}))]]

\* {}
EmptyMapping == [kind |-> "map", map |-> [k \in {} |-> YamlError]]

\* parts[2] as it is.
StrippedBody_kept(part) == part

\* parts[2].strip()
StrippedBody(part) == Strip(part)

\* parse_markdown_profile: (metadata, md_content).
parse_markdown_profile(text) ==
    LET parts == SplitHeader(text)
        loaded == yaml_safe_load(parts[2])
    IN  IF StartsWithDelimiter(text) /\ Len(parts) >= 3
        THEN [metadata |-> IF loaded.kind = "error" THEN EmptyMapping ELSE loaded,
              md_content |-> StrippedBody(parts[3])]
        ELSE [metadata |-> EmptyMapping, md_content |-> text]

----------------------------------------------------------------------------
(* sync-to-portfolio.py: parse_markdown_sections *)

\* The keywords of lines 197-209 that the lower-cased text of a token holds
\* ('practicum ii' holds 'practicum i').
KeywordsOf(t) ==
    CASE t = HAbout -> {"about"}
      [] t = HAboutShort -> {"about"}
      [] t = HAboutSkills -> {"about", "skill"}
      [] t = HSkills -> {"skill"}
      [] t = H692 -> {"practicum i", "msds 692"}
      [] t = H696 -> {"practicum ii", "practicum i", "msds 696"}
      [] t = HContact -> {"contact"}
      [] t = HExperience -> {"experience"}
      [] t = HMixed -> {"practicum ii", "practicum i", "msds 692"}
      [] t = HCapstone -> {"msds 696"}
      [] t = HAboutPracticum -> {"about", "practicum ii", "practicum i"}
      [] OTHER -> {}

\* The cascade with the rules of 'practicum i' and 'msds 692' tested before
\* those of 'practicum ii' and 'msds 696'.
SectionOfHeading_general_first(line_stripped) ==
    LET section_name == UNION {KeywordsOf(line_stripped[k]) : k \in 1..Len(line_stripped)}
    IN  IF "about" \in section_name THEN "about"
        ELSE IF "skill" \in section_name THEN "skills"
        ELSE IF "practicum i" \in section_name \/ "msds 692" \in section_name
        THEN "practicum1"
        ELSE IF "practicum ii" \in section_name \/ "msds 696" \in section_name
        THEN "practicum2"
        ELSE IF "contact" \in section_name THEN "contact"
        ELSE IF "experience" \in section_name THEN "experience"
        ELSE IF "achievement" \in section_name \/ "award" \in section_name
        THEN "achievements"
        ELSE "None"

\* Lines 197-212: the section a heading line starts; "None" for none.
SectionOfHeading(line_stripped) ==
    LET section_name == UNION {KeywordsOf(line_stripped[k]) : k \in 1..Len(line_stripped)}
    IN  IF "about" \in section_name THEN "about"
        ELSE IF "skill" \in section_name THEN "skills"
        ELSE IF "practicum ii" \in section_name \/ "msds 696" \in section_name
        THEN "practicum2"
        ELSE IF "practicum i" \in section_name \/ "msds 692" \in section_name
        THEN "practicum1"
        ELSE IF "contact" \in section_name THEN "contact"
        ELSE IF "experience" \in section_name THEN "experience"
        ELSE IF "achievement" \in section_name \/ "award" \in section_name
        THEN "achievements"
        ELSE "None"

SectionKeys ==
    {"about", "skills", "practicum1", "practicum2", "contact", "experience", "achievements"}

\* The keys that the block after the loop saves (lines 219-227).
LastSectionKeys == {"about", "skills", "practicum1", "practicum2", "contact"}

\* '\n'.join(lines), half by half.
RECURSIVE JoinLines(_)
JoinLines(lines) ==
    IF lines = <<>> THEN <<>>
    ELSE IF Len(lines) = 1 THEN lines[1]
    ELSE JoinLines(SubSeq(lines, 1, Len(lines) \div 2)) \o <<NL>>
             \o JoinLines(SubSeq(lines, Len(lines) \div 2 + 1, Len(lines)))

\* A section is saved whatever it has collected.
SectionIsSaved_always(current_section, current_content) == current_section # "None"

\* if current_section and current_content
SectionIsSaved(current_section, current_content) ==
    current_section # "None" /\ current_content # <<>>

\* Lines 176-190 and 218-227: the collected section is stored under its
\* key.  sections[key] is the section_content of the key: the about and
\* experience texts themselves, and the text handed to the extractor of any
\* other key; <<>> is the value the key starts with.
SaveSection(st, keys) ==
    IF SectionIsSaved(st.current_section, st.current_content)
       /\ st.current_section \in keys
    THEN [st.sections EXCEPT
             ![st.current_section] = Strip(JoinLines(st.current_content))]
    ELSE st.sections

\* line_stripped.startswith('## ')
IsHeadingLine(line) == Strip(line) # <<>> /\ IsHeading(Strip(line)[1])

\* Lines 213-215, for the lines k..(h - 1), none of which is a heading:
\* inside a section, the lines that are not blank are collected as they are.
CollectLines(st, lines, k, h) ==
    IF st.current_section = "None" THEN st
    ELSE [st EXCEPT !.current_content =
             @ \o SelectSeq(SubSeq(lines, k, h - 1), LAMBDA line : Strip(line) # <<>>)]

\* Lines 174-212, for a heading line: the section collected so far is
\* saved and the section of the heading starts.
StartSection(st, line) ==
    [sections |-> SaveSection(st, SectionKeys),
     current_section |-> SectionOfHeading(Strip(line)),
     current_content |-> <<>>,
     assigned |-> Append(st.assigned, SectionOfHeading(Strip(line)))]

\* The loop over the lines (lines 171-215), from line k on: one step for
\* the lines up to the next heading line and that heading line.
RECURSIVE SectionLoop(_, _, _)
SectionLoop(lines, k, st) ==
    LET heads == {h \in k..Len(lines) : IsHeadingLine(lines[h])}
    IN  IF heads = {} THEN CollectLines(st, lines, k, Len(lines) + 1)
        ELSE SectionLoop(lines, Least(heads) + 1,
                         StartSection(CollectLines(st, lines, k, Least(heads)),
                                      lines[Least(heads)]))

\* The state of parse_markdown_sections when the loop has ended; `assigned`
\* lists the values given to current_section at the heading lines.
SectionScan(text) ==
    SectionLoop(SplitLines(text), 1,
                [sections |-> [key \in SectionKeys |-> <<>>],
                 current_section |-> "None",
                 current_content |-> <<>>,
                 assigned |-> <<>>])

parse_markdown_sections(text) == SaveSection(SectionScan(text), LastSectionKeys)

----------------------------------------------------------------------------
(* sync-to-portfolio.py: the extractors that parse_markdown_sections hands
   a section's text to. *)

BOLD == "**"

\* Tokens whose text begins with '**'.
BoldToks ==
    {BOLD, "**:**", "**Title:**", "**Semester:**", "**Tags:**", "**Abstract:**", "**Key Achievements:**",
     "**Technologies Used:**", "**Technologies:**", "**Links:**", "**Programming Languages:**",
     "**Data Science Tools:**", "**Email:**", "**LinkedIn:**", "**GitHub:**", "**Portfolio:**",
     "**Website:**", "**Tools**"}

\* line.startswith(label), the label being a token.
StartsWith(line, label) == line # <<>> /\ line[1] = label

\* line.startswith('**')
StartsBold(line) == line # <<>> /\ line[1] \in BoldToks

\* line.startswith('- ') on a stripped line: strip() takes the blank of a
\* '- ' that nothing follows.
IsBullet(line) == Len(line) >= 2 /\ line[1] = BULLET

\* The keywords that the lower-cased text of a token holds.
Mentions(t) ==
    CASE t \in {"GitHub Repository:", "Add your GitHub link", "GitHub:", "Git/GitHub"} -> {"github"}
      [] t \in {"https://github.com/ada/p", "https://github.com/"} -> {"github", "http"}
      [] t = "https://github.com/ada/report.pdf" -> {"github", "report", "http"}
      [] t = "**GitHub:**" -> {"github"}
      [] t \in {"Project Report:", "Download Report", "reports/", "_report.pdf",
                "final_report.pdf"} -> {"report"}
      [] t = "Presentation Slides:" -> {"presentation", "slide"}
      [] t \in {"View Slides", "_slides.pdf"} -> {"slide"}
      [] t = "presentations/" -> {"presentation"}
      [] t \in {"Live Demo:", "Demo:"} -> {"demo"}
      [] t = "https://demo.site" -> {"demo", "http"}
      [] t = "GitHub report:" -> {"github", "report"}
      [] t = "**Email:**" -> {"email"}
      [] t = "**LinkedIn:**" -> {"linkedin"}
      [] t \in {"https://linkedin.com/in/", "https://LinkedIn.com/in/"} -> {"linkedin", "http"}
      [] t \in {"**Portfolio:**", "Visit my portfolio"} -> {"portfolio"}
      [] t = "https://your-portfolio-site.com" -> {"portfolio", "http"}
      [] t = "**Website:**" -> {"website"}
      [] t = "https://ada.dev" -> {"http"}
      [] OTHER -> {}

\* keyword in text.lower()
Has(text, keyword) == \E i \in 1..Len(text) : keyword \in Mentions(text[i])

\* re.search(r'\[(.*?)\]\((.*?)\)', text) on the text of one line: the
\* leftmost '[' that a '](' and then a ')' follow, the first such '](' and
\* the first ')' after it; url is group(2).
MarkdownLink(text) ==
    LET closes(j) == {k \in (j + 1)..Len(text) : text[k] = RB}
        mids(i) == {j \in (i + 1)..Len(text) : text[j] = MID /\ closes(j) # {}}
        opens == {i \in 1..Len(text) : text[i] = LB /\ mids(i) # {}}
    IN  IF opens = {} THEN [found |-> FALSE, url |-> <<>>]
        ELSE LET j == Least(mids(Least(opens)))
             IN  [found |-> TRUE, url |-> SubSeq(text, j + 1, Least(closes(j)) - 1)]

\* [tag.strip() for tag in tags.split(',') if tag.strip()]
RECURSIVE SplitTags(_)
SplitTags(tags) ==
    LET commas == {i \in 1..Len(tags) : tags[i] = COMMA}
        first == IF commas = {} THEN tags ELSE SubSeq(tags, 1, Least(commas) - 1)
        rest == IF commas = {} THEN <<>>
                ELSE SplitTags(SubSeq(tags, Least(commas) + 1, Len(tags)))
    IN  (IF Strip(first) # <<>> THEN <<Strip(first)>> ELSE <<>>) \o rest

\* The record of lines 249-259 and current_field = None.
NoProject ==
    [title |-> <<>>, tags |-> <<>>, abstract |-> <<>>, achievements |-> <<>>,
     technologies |-> <<>>, github |-> <<"#">>, report |-> <<"#">>, slides |-> <<"#">>,
     demo |-> <<"#">>, current_field |-> "None"]

\* Lines 284-301: the first keyword that the bullet's text holds, the URL
\* included, names the field; the field is set when the text has a link.
LinkField(link_text) ==
    IF Has(link_text, "github") THEN "github"
    ELSE IF Has(link_text, "report") THEN "report"
    ELSE IF Has(link_text, "slide") \/ Has(link_text, "presentation") THEN "slides"
    ELSE IF Has(link_text, "demo") THEN "demo"
    ELSE "None"

\* A link field is set from a bullet that holds no markdown link as well.
ProjectBullet_no_link_needed(project, line) ==
    LET link_text == Strip(Tail(line))
    IN  IF project.current_field = "achievements"
        THEN [project EXCEPT !.achievements = Append(@, Strip(Tail(line)))]
        ELSE IF project.current_field = "links" /\ LinkField(link_text) # "None"
        THEN [project EXCEPT ![LinkField(link_text)] = MarkdownLink(link_text).url]
        ELSE project

\* Lines 280-301, a bullet line.
ProjectBullet(project, line) ==
    LET link_text == Strip(Tail(line))
        match == MarkdownLink(link_text)
    IN  IF project.current_field = "achievements"
        THEN [project EXCEPT !.achievements = Append(@, Strip(Tail(line)))]
        ELSE IF project.current_field = "links" /\ LinkField(link_text) # "None" /\ match.found
        THEN [project EXCEPT ![LinkField(link_text)] = match.url]
        ELSE project

\* Lines 264-306, one line of the loop.  line.split(':', 1)[1] of a
\* Technologies line begins with the '**' that closes the label.
ProjectLine(project, raw) ==
    LET line == Strip(raw)
    IN  IF StartsWith(line, "**Title:**") THEN [project EXCEPT !.title = Strip(Tail(line))]
        ELSE IF StartsWith(line, "**Tags:**")
        THEN [project EXCEPT !.tags = SplitTags(Strip(Tail(line)))]
        ELSE IF StartsWith(line, "**Abstract:**")
        THEN [project EXCEPT !.abstract = Strip(Tail(line)), !.current_field = "abstract"]
        ELSE IF StartsWith(line, "**Technologies Used:**") \/ StartsWith(line, "**Technologies:**")
        THEN [project EXCEPT !.technologies = Strip(<<BOLD>> \o Tail(line))]
        ELSE IF StartsWith(line, "**Key Achievements:**")
        THEN [project EXCEPT !.current_field = "achievements"]
        ELSE IF StartsWith(line, "**Links:**") THEN [project EXCEPT !.current_field = "links"]
        ELSE IF IsBullet(line) THEN ProjectBullet(project, line)
        ELSE IF project.current_field = "abstract" /\ line # <<>> /\ ~StartsBold(line)
        THEN [project EXCEPT !.abstract = IF @ # <<>> THEN @ \o <<SP>> \o line ELSE line]
        ELSE project

RECURSIVE ProjectLoop(_, _, _)
ProjectLoop(lines, k, project) ==
    IF k > Len(lines) THEN project
    ELSE ProjectLoop(lines, k + 1, ProjectLine(project, lines[k]))

\* parse_project_section; the record keeps current_field as the loop left it.
parse_project_section(project_text) == ProjectLoop(SplitLines(project_text), 1, NoProject)

\* Tokens whose text ends with ':**'.  A line of the model that begins with
\* '**' and ends with ':**' is one such token.
MarkerToks == BoldToks \ {BOLD, "**Tools**"}

\* line[2:-3].strip() of a marker token; the name of '**:**' is empty.
CategoryName(t) ==
    CASE t = "**Programming Languages:**" -> "Programming Languages"
      [] t = "**Data Science Tools:**" -> "Data Science Tools"
      [] t = "**Technologies:**" -> "Technologies"
      [] t = "**Technologies Used:**" -> "Technologies Used"
      [] t = "**Key Achievements:**" -> "Key Achievements"
      [] t = "**Links:**" -> "Links"
      [] t = "**Title:**" -> "Title"
      [] t = "**Semester:**" -> "Semester"
      [] t = "**Tags:**" -> "Tags"
      [] t = "**Abstract:**" -> "Abstract"
      [] t = "**Email:**" -> "Email"
      [] t = "**LinkedIn:**" -> "LinkedIn"
      [] t = "**GitHub:**" -> "GitHub"
      [] t = "**Portfolio:**" -> "Portfolio"
      [] t = "**Website:**" -> "Website"
      [] OTHER -> ""

\* line.startswith('**') and line.endswith(':**')
IsMarker(line) == Len(line) = 1 /\ line[1] \in MarkerToks

\* Items restart only for a category that was not named before.
ResetCategory_first_only(skills, category) ==
    IF \E n \in 1..Len(skills) : skills[n].category = category THEN skills
    ELSE Append(skills, [category |-> category, items |-> <<>>])

\* skills[current_category] = [] on a dict that keeps the order in which
\* its keys were first set: skills is the sequence of [category, items].
ResetCategory(skills, category) ==
    IF \E n \in 1..Len(skills) : skills[n].category = category
    THEN [n \in 1..Len(skills) |->
             IF skills[n].category = category THEN [skills[n] EXCEPT !.items = <<>>]
             ELSE skills[n]]
    ELSE Append(skills, [category |-> category, items |-> <<>>])

\* skills[current_category].append(skill)
AppendSkill(skills, category, skill) ==
    [n \in 1..Len(skills) |->
        IF skills[n].category = category THEN [skills[n] EXCEPT !.items = Append(@, skill)]
        ELSE skills[n]]

\* Lines 237-243, one line of the loop; an empty current_category is falsy.
SkillsLine(st, raw) ==
    LET line == Strip(raw)
    IN  IF IsMarker(line)
        THEN [skills |-> ResetCategory(st.skills, CategoryName(line[1])),
              current_category |-> CategoryName(line[1])]
        ELSE IF IsBullet(line) /\ st.current_category # ""
        THEN [st EXCEPT !.skills = AppendSkill(@, st.current_category, Strip(Tail(line)))]
        ELSE st

RECURSIVE SkillsLoop(_, _, _)
SkillsLoop(lines, k, st) ==
    IF k > Len(lines) THEN st ELSE SkillsLoop(lines, k + 1, SkillsLine(st, lines[k]))

\* parse_skills_section; current_category = None is the empty name here,
\* both are falsy.
parse_skills_section(skills_text) ==
    SkillsLoop(SplitLines(skills_text), 1, [skills |-> <<>>, current_category |-> ""]).skills

\* sync-to-portfolio.py's clean_email (lines 42-46): only the worldclass
\* subdomain is replaced.
clean_email_sync(email) ==
    [i \in 1..Len(email) |->
        IF email[i] = "@worldclass.regis.edu" THEN "@regis.edu" ELSE email[i]]

\* Tokens of the characters [\w.-] only.
WordToks == {Username, "w", "W", "v", "King"}

\* Tokens that begin with 'http://' or 'https://'.
UrlToks ==
    {"https://github.com/ada/p", "https://github.com/", "https://github.com/ada/report.pdf",
     "https://demo.site", "https://linkedin.com/in/", "https://LinkedIn.com/in/",
     "https://your-portfolio-site.com", "https://ada.dev"}

\* The domains that the text of a token holds, letter case kept.
Domains(t) ==
    CASE t \in {"https://github.com/ada/p", "https://github.com/",
                "https://github.com/ada/report.pdf"} -> {"github.com"}
      [] t = "https://linkedin.com/in/" -> {"linkedin.com"}
      [] OTHER -> {}

HasDomain(text, domain) == \E i \in 1..Len(text) : domain \in Domains(text[i])

\* re.search(r'[\w\.-]+@[\w\.-]+\.\w+', line): the word tokens before the
\* first '@domain' token that has one, and that token.
EmailMatch(line) ==
    LET at == {i \in 2..Len(line) : line[i] \in DomainToks /\ line[i - 1] \in WordToks}
    IN  IF at = {} THEN [found |-> FALSE, text |-> <<>>]
        ELSE LET i == Least(at)
                 from == Least({k \in 1..(i - 1) : \A n \in k..(i - 1) : line[n] \in WordToks})
             IN  [found |-> TRUE, text |-> SubSeq(line, from, i)]

\* re.search(r'https?://[^\s]*' + domain + r'[^\s]*', line); the domain ''
\* is the pattern of line 364, https?://[^\s]+
RawUrl(line, domain) ==
    LET end(i) == Least({k \in i..Len(line) : k = Len(line) \/ line[k + 1] \in Whitespace})
        at == {i \in 1..Len(line) :
                  /\ line[i] \in UrlToks
                  /\ domain # "" => HasDomain(SubSeq(line, i, end(i)), domain)}
    IN  IF at = {} THEN [found |-> FALSE, url |-> <<>>]
        ELSE [found |-> TRUE, url |-> SubSeq(line, Least(at), end(Least(at)))]

\* '[' in line and ']' in line and '(' in line and ')' in line
HasBrackets(line) ==
    /\ \E i \in 1..Len(line) : line[i] = LB
    /\ \E i \in 1..Len(line) : line[i] = MID
    /\ \E i \in 1..Len(line) : line[i] = RB

NoContact == [email |-> <<>>, linkedin |-> <<"#">>, github |-> <<"#">>, portfolio |-> <<"#">>]

\* The target of a markdown link is taken whatever domain it names.
DomainLine_any_target(contact, line, field, domain) ==
    IF HasBrackets(line)
    THEN IF MarkdownLink(line).found THEN [contact EXCEPT ![field] = MarkdownLink(line).url]
         ELSE contact
    ELSE IF RawUrl(line, domain).found THEN [contact EXCEPT ![field] = RawUrl(line, domain).url]
         ELSE contact

\* Lines 329-340 and 342-353: the branch of a linkedin or github line.
DomainLine(contact, line, field, domain) ==
    IF HasBrackets(line)
    THEN IF MarkdownLink(line).found /\ HasDomain(MarkdownLink(line).url, domain)
         THEN [contact EXCEPT ![field] = MarkdownLink(line).url]
         ELSE contact
    ELSE IF RawUrl(line, domain).found THEN [contact EXCEPT ![field] = RawUrl(line, domain).url]
         ELSE contact

\* Lines 320-366, one line of the loop.
ContactLine(contact, raw) ==
    LET line == Strip(raw)
    IN  IF Has(line, "email") /\ (\E i \in 1..Len(line) : line[i] \in DomainToks)
        THEN IF EmailMatch(line).found
             THEN [contact EXCEPT !.email = clean_email_sync(EmailMatch(line).text)]
             ELSE contact
        ELSE IF Has(line, "linkedin") THEN DomainLine(contact, line, "linkedin", "linkedin.com")
        ELSE IF Has(line, "github") THEN DomainLine(contact, line, "github", "github.com")
        ELSE IF (Has(line, "portfolio") \/ Has(line, "website")) /\ Has(line, "http")
        THEN IF HasBrackets(line)
             THEN IF MarkdownLink(line).found
                  THEN [contact EXCEPT !.portfolio = MarkdownLink(line).url]
                  ELSE contact
             ELSE IF RawUrl(line, "").found
                  THEN [contact EXCEPT !.portfolio = RawUrl(line, "").url]
                  ELSE contact
        ELSE contact

RECURSIVE ContactLoop(_, _, _)
ContactLoop(lines, k, contact) ==
    IF k > Len(lines) THEN contact
    ELSE ContactLoop(lines, k + 1, ContactLine(contact, lines[k]))

parse_contact_section(contact_text) == ContactLoop(SplitLines(contact_text), 1, NoContact)

----------------------------------------------------------------------------
(* sync-to-portfolio.py: create_html_page and the functions that render
   its regions.  HTML is a sequence of tokens as well. *)

POpen == "<p class=\"mb-4\">"
PClose == "</p>"
BR == "<br>"
AboutSoonBlock == "<div class=\"text-center text-gray-500 py-8\">About information will be available soon.</div>"
AboutSoonParagraph == "<p class=\"text-gray-600\">About information will be available soon.</p>"

\* Lines 1439-1441 on one token: the tokens of the About sections of the
\* model hold markdown markup only as a whole token, '*text*'.
MarkupTok(t) ==
    IF t = "*Please update this section with your personal background*"
    THEN "<em>Please update this section with your personal background</em>"
    ELSE t

\* html_content.split('\n\n')
RECURSIVE SplitParagraphs(_)
SplitParagraphs(s) ==
    LET at == {k \in 1..(Len(s) - 1) : s[k] = NL /\ s[k + 1] = NL}
    IN  IF at = {} THEN <<s>>
        ELSE <<SubSeq(s, 1, Least(at) - 1)>>
                 \o SplitParagraphs(SubSeq(s, Least(at) + 2, Len(s)))

\* Lines 1447-1452: a paragraph that is not blank, stripped, with its
\* newlines replaced by <br>, between <p class="mb-4"> and </p>.
FormatParagraph(paragraph) ==
    <<POpen>> \o [k \in 1..Len(Strip(paragraph)) |->
                    IF Strip(paragraph)[k] = NL THEN BR ELSE Strip(paragraph)[k]]
             \o <<PClose>>

\* format_about_text (the definition of line 1425, which replaces the one
\* of line 940 when the module is loaded).
format_about_text(about_content) ==
    LET html_content == [k \in 1..Len(about_content) |-> MarkupTok(about_content[k])]
        paragraphs == SelectSeq(SplitParagraphs(html_content),
                                LAMBDA paragraph : Strip(paragraph) # <<>>)
    IN  IF about_content = <<>> THEN <<AboutSoonBlock>>
        ELSE IF paragraphs = <<>> THEN <<AboutSoonParagraph>>
        ELSE JoinLines([k \in 1..Len(paragraphs) |-> FormatParagraph(paragraphs[k])])

\* The records that lines 179-190 and 220-227 store for the saved sections.
\* The extractor of a section that was never saved is not called: its key
\* keeps the empty dict, which reads as the record of an empty text.
SectionRecords(sections) ==
    [practicum1 |-> parse_project_section(sections["practicum1"]),
     practicum2 |-> parse_project_section(sections["practicum2"]),
     skills |-> parse_skills_section(sections["skills"]),
     contact |-> parse_contact_section(sections["contact"])]

SkillsGridOpen == "<div class=\"grid grid-cols-2 md:grid-cols-4 gap-4\">"
DivClose == "</div>"
SkillNameOpen == "<p class=\"font-semibold\">"
SkillListOpen == "<p class=\"text-sm text-gray-600\">"

\* The opening tag of a card of the given colour (lines 960-975 and 999).
SkillCardOpen(color) ==
    CASE color = "blue" -> "<div class=\"bg-gradient-to-br from-blue-50 to-blue-100 p-4 rounded-lg text-center border border-blue-200\">"
      [] color = "green" -> "<div class=\"bg-gradient-to-br from-green-50 to-green-100 p-4 rounded-lg text-center border border-green-200\">"
      [] color = "purple" -> "<div class=\"bg-gradient-to-br from-purple-50 to-purple-100 p-4 rounded-lg text-center border border-purple-200\">"
      [] color = "orange" -> "<div class=\"bg-gradient-to-br from-orange-50 to-orange-100 p-4 rounded-lg text-center border border-orange-200\">"
      [] OTHER -> "<div class=\"bg-gradient-to-br from-gray-50 to-gray-100 p-4 rounded-lg text-center border border-gray-200\">"

SkillCardOpens == {SkillCardOpen(c) : c \in {"blue", "green", "purple", "orange", "gray"}}

\* Lines 959-980.
DefaultSkillsGrid ==
    <<SkillsGridOpen,
      SkillCardOpen("blue"), "<i class=\"fas fa-code text-primary text-3xl mb-2\"></i>",
         SkillNameOpen, "Programming", PClose, SkillListOpen, "Python, R, SQL", PClose, DivClose,
      SkillCardOpen("green"), "<i class=\"fas fa-laptop-code text-green-600 text-3xl mb-2\"></i>",
         SkillNameOpen, "Data Analysis", PClose, SkillListOpen, "Pandas, NumPy", PClose, DivClose,
      SkillCardOpen("purple"), "<i class=\"fas fa-chart-bar text-purple-600 text-3xl mb-2\"></i>",
         SkillNameOpen, "Visualization", PClose, SkillListOpen, "Matplotlib, Seaborn", PClose,
         DivClose,
      SkillCardOpen("orange"), "<i class=\"fas fa-brain text-orange-600 text-3xl mb-2\"></i>",
         SkillNameOpen, "Machine Learning", PClose, SkillListOpen, "Scikit-learn", PClose, DivClose,
      DivClose>>

\* skill_icons.get(category, ('fas fa-star', 'gray')): of the categories of
\* the model only 'Programming Languages' is a key of skill_icons.
SkillColor(category) == IF category = "Programming Languages" THEN "blue" ELSE "gray"

SkillIcon(category) ==
    IF category = "Programming Languages"
    THEN "<i class=\"fas fa-code text-blue-600 text-3xl mb-2\"></i>"
    ELSE "<i class=\"fas fa-star text-gray-600 text-3xl mb-2\"></i>"

\* ', '.join(items)
RECURSIVE JoinComma(_)
JoinComma(items) ==
    IF items = <<>> THEN <<>>
    ELSE IF Len(items) = 1 THEN items[1]
    ELSE items[1] \o <<COMMA, SP>> \o JoinComma(Tail(items))

\* Every skill of the category is shown.
ShownSkills_all(skills_list) == skills_list

\* skills_list[:3]
ShownSkills(skills_list) ==
    SubSeq(skills_list, 1, IF Len(skills_list) < 3 THEN Len(skills_list) ELSE 3)

\* Lines 994-1003, the card of one category.
SkillCard(entry) ==
    <<SkillCardOpen(SkillColor(entry.category)), SkillIcon(entry.category),
      SkillNameOpen, entry.category, PClose, SkillListOpen>>
        \o JoinComma(ShownSkills(entry.items)) \o <<PClose, DivClose>>

RECURSIVE SkillCards(_)
SkillCards(skills) ==
    IF skills = <<>> THEN <<>> ELSE SkillCard(skills[1]) \o SkillCards(Tail(skills))

\* generate_skills_html
generate_skills_html(skills_dict) ==
    IF skills_dict = <<>> THEN DefaultSkillsGrid
    ELSE <<SkillsGridOpen>> \o SkillCards(skills_dict) \o <<DivClose>>

\* The files of the student's directory and the entry of the student in
\* data/2025_summer_msds692.json: file names in reports/ and
\* presentations/, and the github of the JSON entry (<<>> when there is no
\* entry or the entry has no github).
ReportName(project_num) == <<Username, "_practicum", project_num, "_report.pdf">>
SlidesName(project_num) == <<Username, "_practicum", project_num, "_slides.pdf">>

NoFiles == [reports |-> {}, presentations |-> {}, json_github |-> <<>>]

FileSets ==
    { NoFiles,
      [NoFiles EXCEPT !.reports = {ReportName("1")}],
      [NoFiles EXCEPT !.reports = {<<"final_report.pdf">>}],
      [NoFiles EXCEPT !.json_github = <<"https://github.com/ada/p">>] }

\* find_student_files: the lists 'reports' and 'presentations' of the result.
find_student_files(student_dir) ==
    [reports |-> student_dir.reports, presentations |-> student_dir.presentations]

StudentBase == "https://raw.githubusercontent.com/iamgmujtaba/regis_std/main/data/students/"

Placeholder == <<"#">>

\* get_project_urls_from_json (lines 383-440); a key that the dict lacks is
\* <<>>.  Only the JSON file of MSDS692 can list the student.
get_project_urls_from_json(files, is_practicum_1) ==
    LET project_num == IF is_practicum_1 THEN "1" ELSE "2"
        base_url == <<StudentBase, Username>>
        report == IF ReportName(project_num) \in files.reports
                  THEN base_url \o <<"/reports/">> \o ReportName(project_num) ELSE <<>>
        slides == IF SlidesName(project_num) \in files.presentations
                  THEN base_url \o <<"/presentations/">> \o SlidesName(project_num) ELSE <<>>
        listed == is_practicum_1 /\ files.json_github # <<>>
    IN  [github |-> IF listed THEN files.json_github ELSE Placeholder,
         demo |-> Placeholder,
         slides |-> IF slides # <<>> THEN slides ELSE Placeholder,
         presentation |-> IF slides # <<>> THEN slides ELSE Placeholder,
         report |-> IF report # <<>> THEN report ELSE Placeholder,
         cv |-> Placeholder]

\* Lines 468-475 and 478-486: the URL of a file of the directory whose name
\* holds 'practicum<n>' or the keyword, or '#'.
DetectedUrl(names, folder, project_num, keywords) ==
    LET hits == {name \in names :
                    \/ \E i \in 1..(Len(name) - 1) :
                          name[i] = "_practicum" /\ name[i + 1] = project_num
                    \/ \E keyword \in keywords : Has(name, keyword)}
    IN  IF hits = {} THEN Placeholder
        ELSE <<StudentBase, Username, folder>> \o (CHOOSE name \in hits : TRUE)

\* auto_detect_project_files: found is the student_files handed in, data is
\* what get_project_urls_from_json reads from disk.
auto_detect_project_files(found, data, is_practicum_1, project_section) ==
    LET json_urls == get_project_urls_from_json(data, is_practicum_1)
        project_num == IF is_practicum_1 THEN "1" ELSE "2"
        report == DetectedUrl(found.reports, "/reports/", project_num, {"report"})
        slides == DetectedUrl(found.presentations, "/presentations/", project_num,
                              {"slides", "presentation"})
    IN  IF \E key \in DOMAIN json_urls : json_urls[key] # Placeholder THEN json_urls
        ELSE [report |-> IF project_section.report # Placeholder THEN project_section.report
                         ELSE report,
              slides |-> IF project_section.slides # Placeholder THEN project_section.slides
                         ELSE slides,
              github |-> project_section.github,
              demo |-> project_section.demo,
              presentation |-> project_section.slides,
              cv |-> <<>>]

ProjectCardOpen == "<div class=\"bg-white rounded-lg shadow-lg p-8 hover:shadow-xl transition duration-300\">"
ProjectTitleOpen == "<h3 class=\"text-2xl font-bold text-gray-900 mb-4\">"
ProjectTitleClose == "</h3>"
DetailsSoon == "<p class=\"text-gray-600\">Project details will be added soon.</p>"
LinksOpen == "<div class=\"flex flex-wrap gap-3 mt-6\">"
AOpen == "<a href=\""
AClose == "</a>"
GithubButton == "\" target=\"_blank\" class=\"inline-flex items-center px-4 py-2 bg-gray-800 text-white rounded-lg hover:bg-gray-700 transition duration-300\"><i class=\"fab fa-github mr-2\"></i> GitHub Repository"
PresentationButton == "\" target=\"_blank\" class=\"inline-flex items-center px-4 py-2 bg-blue-600 text-white rounded-lg hover:bg-blue-700 transition duration-300\"><i class=\"fas fa-presentation-screen mr-2\"></i> Presentation"
ReportButton == "\" target=\"_blank\" class=\"inline-flex items-center px-4 py-2 bg-red-600 text-white rounded-lg hover:bg-red-700 transition duration-300\"><i class=\"fas fa-file-pdf mr-2\"></i> Project Report"
ProjectsSoon == "<div class=\"bg-white rounded-lg shadow-lg p-8 text-center\">Project information will be available soon.</div>"

\* The rest of an anchor that is greyed out, as the repository writes it
\* where it disables a button (class 'bg-gray-300 text-gray-600
\* cursor-not-allowed').
IsGreyed(button) ==
    button \in {"\" class=\"inline-flex items-center px-4 py-2 bg-gray-300 text-gray-600 rounded-lg cursor-not-allowed\">"}

Buttons == {GithubButton, PresentationButton, ReportButton}

\* Lines 1355-1377: the anchor of one kind, written when the URL is truthy.
LinkButton(url, button) == IF url # <<>> THEN <<AOpen>> \o url \o <<button, AClose>> ELSE <<>>

\* Lines 1350-1379.
LinksHtml(project_urls) ==
    IF \E key \in DOMAIN project_urls : project_urls[key] # <<>>
    THEN <<LinksOpen>> \o LinkButton(project_urls.github, GithubButton)
            \o LinkButton(project_urls.presentation, PresentationButton)
            \o LinkButton(project_urls.report, ReportButton) \o <<DivClose>>
    ELSE <<>>

\* generate_enhanced_project_html for a parsed project (lines 1291-1304 and
\* 1330-1405).  The abstracts of the model hold no markup and, being joined
\* from stripped lines, no newline, so lines 1334-1337 leave them as they
\* are.
generate_enhanced_project_html(project_content, project_urls) ==
    <<ProjectCardOpen, ProjectTitleOpen>> \o project_content.title \o <<ProjectTitleClose>>
        \o (IF project_content.abstract # <<>>
            THEN <<POpen>> \o project_content.abstract \o <<PClose>>
            ELSE <<DetailsSoon>>)
        \o LinksHtml(project_urls) \o <<DivClose>>

\* A card is rendered for every saved practicum section, titled or not.
ProjectHtml_untitled(sections, key, found, data) ==
    LET project == parse_project_section(sections[key])
    IN  IF sections[key] # <<>>
        THEN generate_enhanced_project_html(
                 project, auto_detect_project_files(found, data, key = "practicum1", project))
        ELSE <<>>

\* Lines 519-527 and 530-538: the card of one practicum.
ProjectHtml(sections, key, found, data) ==
    LET project == parse_project_section(sections[key])
    IN  IF sections[key] # <<>> /\ project.title # <<>>
        THEN generate_enhanced_project_html(
                 project, auto_detect_project_files(found, data, key = "practicum1", project))
        ELSE <<>>

\* No page has been written.
NoPage ==
    [exists |-> FALSE, course |-> "", about_html |-> <<>>, skills_html |-> <<>>,
     project_html |-> <<>>]

\* create_html_page: the regions of the page written to <username>.html.
\* found is the student_files argument; data is the state of data/ that
\* auto_detect_project_files reads while the page is rendered.
create_html_page(course, markdown_content, found, data) ==
    LET sections == parse_markdown_sections(markdown_content)
        projects_html == ProjectHtml(sections, "practicum1", found, data)
                            \o ProjectHtml(sections, "practicum2", found, data)
    IN  [exists |-> TRUE,
         course |-> course,
         about_html |-> format_about_text(sections["about"]),
         skills_html |-> generate_skills_html(parse_skills_section(sections["skills"])),
         project_html |-> IF projects_html = <<>> THEN <<ProjectsSoon>> ELSE projects_html]

----------------------------------------------------------------------------
(* process_csv.py: the state machine *)

\* generate_fallback_url(profile_base, field)
generate_fallback_url(username) ==
    <<"https://your-portfolio-site.com/profiles/", username, "#">>

\* process_csv_file, lines 675-684: the row as it is handed on.
PreparedRow(csv_row) ==
    [csv_row EXCEPT
        !.email = clean_email(csv_row.email),
        !.github = IF Strip(csv_row.github) = <<>>
                   THEN generate_fallback_url(Username) ELSE csv_row.github]

\* validate_csv_row for the required fields (Username is 'ada' in every row).
validate_csv_row(csv_row) ==
    {field \in {"name", "email", "title"} : Strip(csv_row[field]) = <<>>}

\* generate_course_json, lines 390-401: the entry of one row.  The github of
\* a row that was given the fallback URL is written as '#'.
StudentJson(student_data) ==
    [username |-> <<Username>>,
     name |-> student_data.name,
     email |-> clean_email(student_data.email),
     projectTitle |-> student_data.title,
     github |-> IF Strip(student_data.github) # <<>>
                   /\ student_data.github[1] # "https://your-portfolio-site.com/profiles/"
                THEN student_data.github ELSE <<"#">>]

\* generate_course_json: the list 'students'.
generate_course_json(rows_kept) == [k \in 1..Len(rows_kept) |-> StudentJson(rows_kept[k])]

\* create_student_folder_structure, lines 458-479: the example PDF is copied
\* to these paths of the student's directory.
ExampleFiles ==
    { <<"reports/", Username, "_practicum", n, "_report.pdf">> : n \in {"1", "2"} }
    \cup { <<"presentations/", Username, "_practicum", n, "_slides.pdf">> : n \in {"1", "2"} }

\* process_csv_file has read no row.
NoRowsYet ==
    /\ students_processed = 0
    /\ errors = <<>>
    /\ students_data = <<>>
    /\ json_file = [done |-> FALSE, written |-> FALSE, students |-> <<>>]
    /\ example_files = {}

\* The sync script has not read the profile.
SyncIdle ==
    /\ content = <<>>
    /\ pc = "idle"
    /\ metadata = EmptyMapping
    /\ md_content = <<>>
    /\ parsed_sections = <<>>
    /\ section_keys = <<>>
    /\ records = <<>>
    /\ student_files = find_student_files(NoFiles)
    /\ base_student_data = <<>>
    /\ page = NoPage
    /\ data_dir = NoFiles
    /\ sync_runs = 0
    /\ first_run = [data |-> NoFiles, inputs |-> <<>>, page |-> NoPage]

MergeInit ==
    /\ profile \in {NoFile} \cup {[exists |-> TRUE, text |-> d] : d \in HandProfiles}
    /\ prev = profile
    /\ row = [csv_row |-> BaseRow, student_data |-> PreparedRow(BaseRow),
              course_info |-> [course |-> "msds692", semester |-> "summer", year |-> "2025"]]
    /\ outcome = "none"
    /\ path = "none"
    /\ rows = 0
    /\ NoRowsYet
    /\ merged = [fresh |-> ~profile.exists, courses |-> {}]
    /\ SyncIdle

\* One CSV row of process_csv_file (json_only = False), lines 665-706.  A
\* row that lacks a required field is recorded in errors and skipped.  Any
\* other row is prepared and kept for the JSON; then
\* create_student_folder_structure copies the example PDFs, loads
\* profile.md, creates or updates its content and writes it back.  An
\* exception raised on the way is caught by the row loop (line 702) before
\* the profile is written, and recorded in errors.
ProcessRow(csv_row, course_info) ==
    /\ rows < MaxRows
    /\ ~json_file.done
    /\ prev' = profile
    /\ rows' = rows + 1
    /\ IF validate_csv_row(csv_row) # {}
       THEN /\ row' = [csv_row |-> csv_row, student_data |-> csv_row,
                       course_info |-> course_info]
            /\ outcome' = "skipped"
            /\ path' = "none"
            /\ errors' = Append(errors, rows + 2)
            /\ UNCHANGED <<profile, students_processed, students_data, example_files,
                           merged>>
       ELSE LET student_data == PreparedRow(csv_row)
                loaded == load_existing_profile(profile)
            IN  \E result \in {create_markdown_profile(student_data, course_info,
                                                        loaded.content, loaded.practica)} :
                /\ row' = [csv_row |-> csv_row, student_data |-> student_data,
                           course_info |-> course_info]
                /\ students_data' = Append(students_data, student_data)
                /\ example_files' = ExampleFiles
                /\ profile' = IF result.raised THEN profile
                              ELSE [exists |-> TRUE, text |-> result.text]
                /\ outcome' = IF result.raised THEN "raised" ELSE "written"
                /\ path' = result.path
                /\ students_processed' =
                      IF result.raised THEN students_processed ELSE students_processed + 1
                /\ errors' = IF result.raised THEN Append(errors, rows + 2) ELSE errors
                /\ merged' = IF result.raised THEN merged
                             ELSE [merged EXCEPT
                                      !.courses = @ \cup {CourseNumber(course_info)}]
    /\ UNCHANGED <<json_file, syncVars>>

\* The end of process_csv_file, lines 708-727: the course JSON is written
\* from students_data when it holds a row.
EndOfCsv ==
    /\ ~json_file.done
    /\ json_file' = [done |-> TRUE, written |-> students_data # <<>>,
                     students |-> generate_course_json(students_data)]
    /\ UNCHANGED <<profile, prev, row, outcome, path, rows, students_processed, errors,
                   students_data, example_files, merged, syncVars>>

MergeNext ==
    \/ \E csv_row \in CsvRows, course_info \in CourseInfos : ProcessRow(csv_row, course_info)
    \/ EndOfCsv

SpecMerge == MergeInit /\ [][MergeNext]_vars

----------------------------------------------------------------------------
(* sync-to-portfolio.py: inputs *)

\* The profiles that process_csv.py writes for a new student.
WrittenProfiles ==
    {create_markdown_profile(PreparedRow(csv_row), course_info, <<>>, <<>>).text :
        csv_row \in CsvRows, course_info \in CourseInfos}

\* Header blocks written by hand, and texts that only resemble one.
SyncHeaders ==
    { <<>>,
      <<FM, NL>> \o QuotedLine("firstName:", <<"Ada">>)
          \o QuotedLine("lastName:", <<"King">>) \o <<FM, NL, NL>>,
      <<NL, FM, NL>> \o QuotedLine("firstName:", <<"Ada">>) \o <<FM, NL, NL>>,
      <<FM, NL, "firstName:", "Ada", NL, "graduation:", "2026", NL,
        "semester:", "Fall", SP, "2025", NL, FM, NL, NL>>,
      <<FM, NL, FM, NL, NL>>,
      <<FM, NL, "w", NL, FM, NL, NL>>,
      <<FM, NL, "firstName:", Q, "w", BS, "w", Q, NL, FM, NL, NL>>,
      <<FM, NL, "firstName:", Q, "w", BS, BS, "w", Q, NL, FM, NL, NL>>,
      <<FM, NL, "firstName:", Q, "Ada", NL, NL>> }

\* Bodies written by hand, section by section.
SyncBodies ==
    { a \o b \o p \o t :
        a \in {<<>>, <<HAbout, NL, NL, "w", NL, NL, "W", NL, NL>>},
        b \in {<<>>, <<HAboutShort, NL, NL, "v", NL, NL>>, <<HAboutShort, NL, NL>>,
               <<HAbout, NL, NL, "v", NL, NL>>},
        p \in {<<>>} \cup
              {<<h, NL, NL, "**Title:**", SP, "v", NL, NL>> :
                  h \in {H692, HMixed, HCapstone, HAboutPracticum}},
        t \in {<<>>,
               <<HContact, NL, NL, "**Email:**", SP, "ada", "@regis.edu", NL>>,
               <<HExperience, NL, NL, "w", NL>>,
               <<HNotes, NL, NL, "w", NL>>} }

\* A header that parses to a mapping, so that the run reaches the pages.
GoodHeader ==
    <<FM, NL>> \o QuotedLine("firstName:", <<"Ada">>) \o QuotedLine("lastName:", <<"King">>)
        \o <<FM, NL, NL>>

\* The Abstract label with a continuation line; with a Technologies label
\* and a note after it; with no text of its own, a bullet and a plain line;
\* with no text of its own and a Technologies label on the next line, alone
\* and with a note after it.
AbstractParts ==
    { <<>>,
      <<"**Abstract:**", SP, "w", NL, "W", NL>>,
      <<"**Abstract:**", SP, "w", NL, "**Technologies Used:**", SP, "Python", NL, "W", NL>>,
      <<"**Abstract:**", NL, BULLET, "W", NL, "v", NL>>,
      <<"**Abstract:**", NL, "**Technologies Used:**", SP, "Python", NL>>,
      <<"**Abstract:**", SP, NL, "**Technologies:**", SP, "Python", NL, "W", NL>> }

\* Achievements, and achievements with a Technologies label and a bullet
\* list of its own after them.
AchievementParts ==
    { <<>>,
      <<"**Key Achievements:**", NL, BULLET, "won", NL, BULLET, "W", SP, NL>>,
      <<"**Key Achievements:**", NL, BULLET, "won", NL,
        "**Technologies:**", SP, "Python", NL, BULLET, "Pandas, NumPy", NL>> }

\* Links: a GitHub link alone; a report whose file is kept on github.com and
\* a demo; a keyword with no link, slides, and a bullet under a Tags label.
LinkParts ==
    { <<>>,
      <<"**Links:**", NL,
        BULLET, "GitHub:", SP, LB, "Code", MID, "https://github.com/ada/p", RB, NL>>,
      <<"**Links:**", NL,
        BULLET, "Project Report:", SP, LB, "Download Report", MID,
           "https://github.com/ada/report.pdf", RB, NL,
        BULLET, "Live Demo:", SP, LB, "Open", MID, "https://demo.site", RB, NL>>,
      <<"**Links:**", NL,
        BULLET, "Demo:", SP, "https://demo.site", NL,
        BULLET, "Presentation Slides:", SP, LB, "View Slides", MID, "https://ada.dev", RB, NL,
        "**Tags:**", SP, "w", COMMA, "W", NL,
        BULLET, "GitHub report:", SP, LB, "w", MID, "https://ada.dev", RB, NL>> }

ProjectBodies ==
    { t \o a \o k \o l :
        t \in {<<"**Title:**", SP, "v", NL>>, <<BULLET, "won", NL>>},
        a \in AbstractParts, k \in AchievementParts, l \in LinkParts }

ProjectTexts ==
    { GoodHeader \o <<h, NL, NL>> \o b : h \in {H692, H696}, b \in ProjectBodies }

\* Skills: a bullet before the first marker, four skills under one marker
\* and a plain line; a category named twice; a marker with no name; no
\* marker at all; a marker with no bullet.
SkillsBodies ==
    { <<BULLET, "Excel", NL, "**Programming Languages:**", NL, BULLET, "Python", NL,
        BULLET, "R", SP, NL, BULLET, "SQL", NL, BULLET, "Scikit-learn", NL, "w", NL,
        "**Technologies:**", NL, BULLET, "Git/GitHub", NL>>,
      <<"**Technologies:**", NL, BULLET, "Excel", NL, "**Programming Languages:**", NL,
        BULLET, "Python", NL, "**Technologies:**", NL, BULLET, "Git/GitHub", NL>>,
      <<"**:**", NL, BULLET, "Excel", NL>>,
      <<"w", NL>>,
      <<"**Programming Languages:**", NL>> }

\* Contact: addresses written out; links whose target names no domain.
ContactBodies ==
    { <<"**Email:**", SP, "ada", "@worldclass.regis.edu", NL,
        "**LinkedIn:**", SP, "https://linkedin.com/in/", "ada", NL,
        "**GitHub:**", SP, "https://github.com/", "ada", SP, "w", NL,
        "**Website:**", SP, "https://ada.dev", NL>>,
      <<"**Email:**", SP, "w", NL,
        "**LinkedIn:**", SP, LB, "w", MID, "https://LinkedIn.com/in/", "ada", RB, NL,
        "**GitHub:**", SP, LB, "w", MID, "#", RB, NL,
        "**Portfolio:**", SP, LB, "Visit my portfolio", MID, "https://ada.dev", RB, NL>>,
      <<"**Portfolio:**", SP, "w", NL, "**GitHub:**", SP, "w", NL>> }

SectionTexts ==
    { GoodHeader \o <<HSkills, NL, NL>> \o b \o <<NL, H692, NL, NL, "**Title:**", SP, "v", NL>> :
        b \in SkillsBodies }
    \cup { GoodHeader \o <<H696, NL, NL, "**Title:**", SP, "v", NL, NL, HContact, NL, NL>> \o b :
              b \in ContactBodies }

\* Both practica in one profile, in either order, each with a title or with
\* a Title label that carries no text.
TitledSection(h, title) == <<h, NL, NL, "**Title:**", SP>> \o title \o <<NL, NL>>

OrderTexts ==
    { GoodHeader \o (IF first_is_1 THEN a \o b ELSE b \o a) :
        a \in {TitledSection(H692, t) : t \in {<<"v">>, <<>>}},
        b \in {TitledSection(H696, t) : t \in {<<"W">>, <<>>}},
        first_is_1 \in BOOLEAN }

SyncTexts ==
    WrittenProfiles \cup {h \o b : h \in SyncHeaders, b \in SyncBodies}
        \cup ProjectTexts \cup SectionTexts \cup OrderTexts

----------------------------------------------------------------------------
(* sync-to-portfolio.py: the state machine (one student of sync_student_data) *)

\* The CSV side at rest.
MergeIdle ==
    /\ profile = NoFile
    /\ prev = NoFile
    /\ row = [csv_row |-> BaseRow, student_data |-> PreparedRow(BaseRow),
              course_info |-> [course |-> "msds692", semester |-> "summer", year |-> "2025"]]
    /\ outcome = "none"
    /\ path = "none"
    /\ rows = 0
    /\ NoRowsYet
    /\ merged = [fresh |-> TRUE, courses |-> {}]

SyncInit ==
    /\ MergeIdle
    /\ content \in SyncTexts
    /\ pc = "read"
    /\ metadata = EmptyMapping
    /\ md_content = <<>>
    /\ parsed_sections = <<>>
    /\ section_keys = <<>>
    /\ records = <<>>
    /\ student_files = find_student_files(NoFiles)
    /\ base_student_data = <<>>
    /\ page = NoPage
    /\ data_dir \in FileSets
    /\ sync_runs = 1
    /\ first_run = [data |-> data_dir, inputs |-> <<>>, page |-> NoPage]

\* Line 1155: metadata, content = parse_markdown_profile(profile_path)
ParseProfile ==
    /\ pc = "read"
    /\ metadata' = parse_markdown_profile(content).metadata
    /\ md_content' = parse_markdown_profile(content).md_content
    /\ pc' = "parsed"
    /\ UNCHANGED <<content, parsed_sections, section_keys, records, student_files,
                   base_student_data, page,
                   data_dir, sync_runs, first_run, mergeVars>>

\* Line 1158: parsed_sections = parse_markdown_sections(content)
ParseSections ==
    /\ pc = "parsed"
    /\ parsed_sections' = parse_markdown_sections(md_content)
    /\ section_keys' = SectionScan(md_content).assigned
    /\ records' = SectionRecords(parsed_sections')
    /\ pc' = "sectioned"
    /\ UNCHANGED <<content, metadata, md_content, student_files, base_student_data, page,
                   data_dir, sync_runs, first_run, mergeVars>>

\* str(value) of a metadata value inside an f-string.
ValueText(v) == IF v.type = "null" THEN <<"None">> ELSE v.text

\* metadata.get(key, default)
MetadataGet(m, key, default) == IF key \in DOMAIN m.map THEN m.map[key] ELSE default

\* Lines 1161-1172: the files of the student are found and the base entry
\* is built.  metadata.get raises
\* AttributeError when metadata is None or a scalar; nothing catches it.
BuildStudentData ==
    /\ pc = "sectioned"
    /\ IF metadata.kind # "map"
       THEN /\ pc' = "raised"
            /\ UNCHANGED <<student_files, base_student_data>>
       ELSE LET first == MetadataGet(metadata, "firstName:", [type |-> "str", text |-> <<>>])
                last == MetadataGet(metadata, "lastName:", [type |-> "str", text |-> <<>>])
                name == Strip(ValueText(first) \o <<SP>> \o ValueText(last))
            IN  /\ pc' = "done"
                /\ student_files' = find_student_files(data_dir)
                /\ base_student_data' =
                      [username |-> <<Username>>,
                       name |-> IF name = <<>> THEN <<Username>> ELSE name,
                       email |-> MetadataGet(metadata, "email:",
                                             [type |-> "str", text |-> <<>>]),
                       semester |-> MetadataGet(metadata, "semester:",
                                                [type |-> "str", text |-> <<"Spring 2025">>])]
    /\ UNCHANGED <<content, metadata, md_content, parsed_sections, section_keys, records,
                   page, data_dir, sync_runs, first_run, mergeVars>>

\* Lines 1174-1192: a student with a Practicum I section gets the page of
\* MSDS692.  parse_project_section returns a record that is never empty, so
\* parsed_sections.get('practicum1') is truthy exactly when the section was
\* saved.
Practicum1Page ==
    /\ pc = "done"
    /\ page' = IF parsed_sections["practicum1"] # <<>>
               THEN create_html_page("MSDS692", md_content, student_files, data_dir)
               ELSE page
    /\ pc' = "page1"
    /\ UNCHANGED <<content, metadata, md_content, parsed_sections, section_keys, records,
                   student_files, base_student_data, data_dir, sync_runs, first_run,
                   mergeVars>>

\* Lines 1194-1212: a student with a Practicum II section gets the page of
\* MSDS696, written to the same file.
Practicum2Page ==
    /\ pc = "page1"
    /\ page' = IF parsed_sections["practicum2"] # <<>>
               THEN create_html_page("MSDS696", md_content, student_files, data_dir)
               ELSE page
    /\ pc' = "finished"
    /\ UNCHANGED <<content, metadata, md_content, parsed_sections, section_keys, records,
                   student_files, base_student_data, data_dir, sync_runs, first_run,
                   mergeVars>>

\* Lines 1217-1272: the JSON file of a course that has students is written
\* anew from the entries of the run.  An entry holds username, name, email,
\* semester, profilePath, avatarPath, files, course, projects and
\* profilePage, and no github, slides or report.
WriteCourseJson ==
    /\ pc = "finished"
    /\ data_dir' = IF parsed_sections["practicum1"] # <<>>
                   THEN [data_dir EXCEPT !.json_github = <<>>]
                   ELSE data_dir
    /\ pc' = "synced"
    /\ UNCHANGED <<content, metadata, md_content, parsed_sections, section_keys, records,
                   student_files, base_student_data, page, sync_runs, first_run,
                   mergeVars>>

\* sync_student_data is run again; profile.md and the files of the student
\* are as they were.
SyncAgain ==
    /\ pc = "synced"
    /\ sync_runs < MaxRuns
    /\ sync_runs' = sync_runs + 1
    /\ first_run' = IF sync_runs = 1
                    THEN [first_run EXCEPT !.inputs = <<metadata, md_content, student_files>>,
                                           !.page = page]
                    ELSE first_run
    /\ pc' = "read"
    /\ UNCHANGED <<content, metadata, md_content, parsed_sections, section_keys, records,
                   student_files, base_student_data, page, data_dir, mergeVars>>

SyncNext ==
    \/ ParseProfile \/ ParseSections \/ BuildStudentData \/ Practicum1Page \/ Practicum2Page
    \/ WriteCourseJson \/ SyncAgain

SpecSync == SyncInit /\ [][SyncNext]_vars

----------------------------------------------------------------------------
(* Properties of the merge (process_csv.py) *)

\* The heading of the practicum of the last processed row.
IncomingHead ==
    HeadingTok(CourseNumber(row.course_info), PracticumNumber(row.course_info))

\* Positions of s that hold the value of a quoted current_course or
\* current_semester field: between the quotes that follow the key.
InCurrentValue(s, k) ==
    \E i \in 1..k :
        /\ s[i] \in {"current_course:", "current_semester:"}
        /\ i + 1 < k
        /\ s[i + 1] = Q
        /\ \A j \in (i + 2)..k : s[j] \notin {Q, NL}

\* s with the values of its quoted current_* fields masked.
Blind(s) == [k \in 1..Len(s) |-> IF InCurrentValue(s, k) THEN "*" ELSE s[k]]

\* The last n tokens of s.
LastTokens(s, n) == SubSeq(s, Len(s) - n + 1, Len(s))

\* Positions of s that hold heading h at the start of a line.
HeadingLines(s, h) == {i \in 1..Len(s) : s[i] = h /\ (i = 1 \/ s[i - 1] = NL)}

\* The position of the first heading line after position i, or Len(s) + 1.
NextHeadingLine(s, i) ==
    LET at == {k \in (i + 1)..Len(s) : IsHeading(s[k]) /\ s[k - 1] = NL}
    IN  IF at = {} THEN Len(s) + 1 ELSE Least(at)

\* A row has been merged into an existing profile and a text was written.
MergedIntoExisting == outcome = "written" /\ prev.exists

\* C1.  When the existing profile has no heading of the incoming practicum
\* and has a Contact heading, the written text is the existing text with a
\* section that begins with the incoming heading inserted immediately before
\* the Contact heading; everything else is unchanged (the values of the
\* current_* fields apart).
C1_InsertBeforeContact ==
    (/\ MergedIntoExisting
     /\ \A i \in 1..Len(prev.text) : prev.text[i] # IncomingHead
     /\ HeadingLines(prev.text, HContact) # {})
    => LET old == prev.text
           new == profile.text
           c == Least(HeadingLines(old, HContact))
       IN  /\ Len(new) > Len(old)
           /\ Blind(SubSeq(new, 1, c - 1)) = Blind(SubSeq(old, 1, c - 1))
           /\ new[c] = IncomingHead
           /\ Blind(LastTokens(new, Len(old) - c + 1)) = Blind(SubSeq(old, c, Len(old)))

\* C2.  When the existing profile has the incoming practicum's heading
\* (followed by a blank line), the written text differs from the existing one
\* only between that heading and the next heading line (or the end): the text
\* before the heading and the text from the next heading on are unchanged
\* (the values of the current_* fields apart).
C2_ReplaceOnlyTheSpan ==
    (/\ MergedIntoExisting
     /\ \E i \in HeadingLines(prev.text, IncomingHead) :
            HeadingAt(prev.text, i, {IncomingHead}))
    => LET old == prev.text
           new == profile.text
           h == Least(HeadingLines(old, IncomingHead))
           e == NextHeadingLine(old, h)
       IN  /\ Len(new) >= h + Len(old) - e + 1
           /\ Blind(SubSeq(new, 1, h - 1)) = Blind(SubSeq(old, 1, h - 1))
           /\ new[h] = IncomingHead
           /\ Blind(LastTokens(new, Len(old) - e + 1)) = Blind(SubSeq(old, e, Len(old)))

\* C3.  Merging the same row once more into the text that a merge has
\* written (by replacing, inserting or appending the section) gives that text
\* again; stated for the rows whose title holds no backslash.
C3_MergeIdempotent ==
    (/\ MergedIntoExisting
     /\ path \in {"replace", "insert", "append"}
     /\ \A i \in 1..Len(row.student_data.title) : row.student_data.title[i] # BS)
    => LET loaded == load_existing_profile(profile)
           again == create_markdown_profile(row.student_data, row.course_info,
                                            loaded.content, loaded.practica)
       IN  ~again.raised /\ again.text = profile.text

\* C4.  A merge into an existing profile never fails, and when the profile
\* has neither the incoming practicum's heading nor a Contact heading the
\* written text is the existing text (trailing white space apart) followed by
\* the new section.
C4_AppendFallbackNeverFails ==
    (outcome # "none" /\ prev.exists)
    => /\ outcome = "written"
       /\ (/\ \A i \in 1..Len(prev.text) : prev.text[i] # IncomingHead
           /\ HeadingLines(prev.text, HContact) = {})
          => LET old == prev.text
                 new == profile.text
                 body == {i \in 1..Len(old) : old[i] \notin Whitespace}
                 n == IF body = {} THEN 0 ELSE Greatest(body)
             IN  /\ Len(new) > n
                 /\ Blind(SubSeq(new, 1, n)) = Blind(SubSeq(old, 1, n))
                 /\ \E i \in (n + 1)..Len(new) : new[i] = IncomingHead

\* The position of the delimiter that closes the header block of s
\* (0 when s has no header block).
HeaderEnd(s) ==
    LET at == {k \in 2..Len(s) : s[k] = FM}
    IN  IF s # <<>> /\ s[1] = FM /\ at # {} THEN Least(at) ELSE 0

\* The value written after the key at position i of s, quotes removed.
FieldValue(s, i) ==
    LET stop == {k \in (i + 1)..Len(s) : s[k] = NL}
        last == IF stop = {} THEN Len(s) ELSE Least(stop) - 1
    IN  SelectSeq(SubSeq(s, i + 1, last), LAMBDA t : t # Q)

\* The values of the fields `key` of s at the positions of `where`.
FieldValues(s, key, where) == {FieldValue(s, i) : i \in {k \in where : s[k] = key}}

\* C5.  After a merge into an existing profile the header block's
\* current_course and current_semester equal the incoming labels, and the
\* text after the header block holds the same current_* values as before.
C5_CurrentFieldsUpdatedInHeaderOnly ==
    MergedIntoExisting
    => LET old == prev.text
           new == profile.text
           header == 1..HeaderEnd(new)
           rest == (HeaderEnd(new) + 1)..Len(new)
           oldrest == (HeaderEnd(old) + 1)..Len(old)
       IN  /\ FieldValues(new, "current_course:", header)
                 \subseteq {<<CourseNumber(row.course_info)>>}
           /\ FieldValues(new, "current_semester:", header)
                 \subseteq {SemesterLabel(row.course_info)}
           /\ \A key \in {"current_course:", "current_semester:"} :
                 FieldValues(new, key, rest) = FieldValues(old, key, oldrest)

----------------------------------------------------------------------------
(* Properties of the front-matter splitter and of the segmenter
   (sync-to-portfolio.py) *)

\* parse_markdown_profile has returned.
Parsed == pc \in {"parsed", "sectioned", "done", "raised", "page1", "finished"}

\* parse_markdown_sections has returned.
Sectioned == pc \in {"sectioned", "done", "raised", "page1", "finished"}

\* The position of the n-th delimiter of s.
NthDelimiter(s, n) ==
    CHOOSE k \in 1..Len(s) :
        s[k] = FM /\ Cardinality({j \in 1..(k - 1) : s[j] = FM}) = n - 1

\* s begins with a delimiter and holds a second one, which closes the header.
HasHeaderBlock(s) ==
    /\ s # <<>>
    /\ s[1] = FM
    /\ Cardinality({k \in 1..Len(s) : s[k] = FM}) >= 2

\* The lines between the two delimiters, and the text after the second one.
HeaderLines(s) == SplitLines(SubSeq(s, 2, NthDelimiter(s, 2) - 1))

AfterHeader(s) == SubSeq(s, NthDelimiter(s, 2) + 1, Len(s))

\* The header block of s cannot be read as YAML.
UnparsableHeader(s) ==
    HasHeaderBlock(s) /\ yaml_safe_load(SubSeq(s, 2, NthDelimiter(s, 2) - 1)).kind = "error"

\* C6 (as stated).  When the text begins with the delimiter and its header
\* block cannot be parsed, the metadata is the empty mapping and the body is
\* the entire input text.
C6_MalformedHeaderWholeInput ==
    (Parsed /\ UnparsableHeader(content))
    => metadata = EmptyMapping /\ md_content = content

\* C6 (amended).  When the text begins with the delimiter and its header
\* block cannot be parsed, the metadata is the empty mapping and the body is
\* the text after the closing delimiter with its surrounding white space
\* removed; the body is the entire input only when the text begins with the
\* delimiter and has no closing delimiter.
C6_MalformedHeaderBodyAfterHeader ==
    Parsed =>
        /\ UnparsableHeader(content)
           => /\ metadata = EmptyMapping
              /\ md_content = Strip(AfterHeader(content))
        /\ (content # <<>> /\ content[1] = FM /\ ~HasHeaderBlock(content))
           => /\ metadata = EmptyMapping
              /\ md_content = content

\* A text with an unparsable header block and a body has been parsed.
C6_Witness ==
    /\ pc = "parsed"
    /\ UnparsableHeader(content)
    /\ md_content # <<>>
    /\ md_content # content

\* C7.  For every text that does not begin with the delimiter, the metadata
\* is the empty mapping and the body is the whole input, unchanged.
C7_NoHeaderWholeInput ==
    (Parsed /\ (content = <<>> \/ content[1] # FM))
    => metadata = EmptyMapping /\ md_content = content

\* A text that holds a header block but does not begin with it has been
\* parsed.
C7_Witness ==
    /\ pc = "parsed"
    /\ content # <<>>
    /\ content[1] # FM
    /\ \E k \in 1..Len(content) : content[k] = FM
    /\ md_content = content

\* A header line 'key: value' or 'key: "value"'.
IsFieldLine(line) == Len(line) >= 2 /\ line[1] \in HeaderKeys

\* The header block of s is well formed: it holds field lines, and lines
\* that are blank, only.
WellFormedHeader(s) ==
    /\ HasHeaderBlock(s)
    /\ \E k \in 1..Len(HeaderLines(s)) : IsFieldLine(HeaderLines(s)[k])
    /\ \A k \in 1..Len(HeaderLines(s)) :
           IsFieldLine(HeaderLines(s)[k]) \/ Strip(HeaderLines(s)[k]) = <<>>

\* The value written on a field line, with its surrounding quotes removed.
WrittenValue(line) ==
    LET v == Strip(SubSeq(line, 2, Len(line)))
    IN  IF Len(v) >= 2 /\ v[1] = Q /\ v[Len(v)] = Q THEN SubSeq(v, 2, Len(v) - 1) ELSE v

\* C8.  For every text with a well-formed header block, the metadata is a
\* mapping with exactly the keys of the header, and each key is mapped to
\* the value written for it, as a string, quotes removed and otherwise
\* unchanged.
C8_HeaderRoundTrip ==
    (Parsed /\ WellFormedHeader(content))
    => LET lines == HeaderLines(content)
           fields == {k \in 1..Len(lines) : IsFieldLine(lines[k])}
       IN  /\ metadata.kind = "map"
           /\ DOMAIN metadata.map = {lines[k][1] : k \in fields}
           /\ \A k \in fields :
                  \/ \E j \in fields : j > k /\ lines[j][1] = lines[k][1]
                  \/ metadata.map[lines[k][1]] =
                         [type |-> "str", text |-> WrittenValue(lines[k])]

\* C9.  Whatever the text, parse_markdown_profile returns a mapping as
\* metadata and sync_student_data goes through the student without raising.
C9_NoInputIsFatal ==
    /\ Parsed => metadata.kind = "map"
    /\ pc # "raised"

\* The heading lines of a key among `lines`, and the text collected after
\* heading line h: the lines up to the next heading line that are not
\* blank, joined.
HeadingsOf(lines, key) ==
    {h \in 1..Len(lines) :
        IsHeadingLine(lines[h]) /\ SectionOfHeading(Strip(lines[h])) = key}

TextAfterHeading(lines, h) ==
    LET next == {k \in (h + 1)..Len(lines) : IsHeadingLine(lines[k])}
        last == IF next = {} THEN Len(lines) ELSE Least(next) - 1
    IN  Strip(JoinLines(SelectSeq(SubSeq(lines, h + 1, last),
                                  LAMBDA line : Strip(line) # <<>>)))

\* C10 (as stated).  When two headings of the body map to the same key, the
\* value stored for the key is the content that follows the last of them.
C10_LastHeadingWins ==
    Sectioned =>
        LET lines == SplitLines(md_content)
        IN  \A key \in LastSectionKeys :
                Cardinality(HeadingsOf(lines, key)) >= 2
                => parsed_sections[key] =
                       TextAfterHeading(lines, Greatest(HeadingsOf(lines, key)))

\* C10 (amended).  The value stored for a key is the content that follows
\* the last heading of the key that has content (a line that is not blank
\* before the next heading); a later heading of the same key without
\* content leaves it in place, and a key without such a heading keeps its
\* initial value.
C10_LastHeadingWithContentWins ==
    Sectioned =>
        LET lines == SplitLines(md_content)
        IN  \A key \in LastSectionKeys :
                LET full == {h \in HeadingsOf(lines, key) : TextAfterHeading(lines, h) # <<>>}
                IN  parsed_sections[key] =
                        IF full = {} THEN <<>> ELSE TextAfterHeading(lines, Greatest(full))

\* A body with two headings of one key has been segmented: the first has
\* content, the second has none, and the content of the first is stored.
C10_Witness ==
    /\ pc = "sectioned"
    /\ LET lines == SplitLines(md_content)
       IN  \E h1, h2 \in HeadingsOf(lines, "about") :
               /\ h1 < h2
               /\ TextAfterHeading(lines, h1) # <<>>
               /\ TextAfterHeading(lines, h2) = <<>>
               /\ parsed_sections["about"] = TextAfterHeading(lines, h1)

\* The heading lines among `lines`, in order, each stripped.
HeadingTexts(lines) ==
    LET heads == {h \in 1..Len(lines) : IsHeadingLine(lines[h])}
    IN  [n \in 1..Cardinality(heads) |->
            Strip(lines[CHOOSE h \in heads : Cardinality({g \in heads : g < h}) = n - 1])]

\* The lower-cased text of the heading line holds the keyword.
HeadingHolds(line, keyword) ==
    \E k \in 1..Len(line) : keyword \in KeywordsOf(line[k])

\* C11.  A heading whose text holds 'practicum ii' or 'msds 696' is never
\* given the key practicum1, and two heading lines with the same text are
\* given the same key.
C11_SpecificRulesFirst ==
    Sectioned =>
        LET texts == HeadingTexts(SplitLines(md_content))
        IN  /\ Len(section_keys) = Len(texts)
            /\ \A n \in 1..Len(texts) :
                   (HeadingHolds(texts[n], "practicum ii") \/ HeadingHolds(texts[n], "msds 696"))
                   => section_keys[n] # "practicum1"
            /\ \A n, m \in 1..Len(texts) :
                   texts[n] = texts[m] => section_keys[n] = section_keys[m]

\* A body has been segmented in which a heading holds 'practicum ii' next
\* to 'msds 692', and another heading text stands twice.
C11_Witness ==
    /\ pc = "sectioned"
    /\ LET texts == HeadingTexts(SplitLines(md_content))
       IN  /\ \E n \in 1..Len(texts) :
                  /\ HeadingHolds(texts[n], "practicum ii")
                  /\ HeadingHolds(texts[n], "msds 692")
                  /\ section_keys[n] = "practicum2"
           /\ \E n, m \in 1..Len(texts) : n < m /\ texts[n] = texts[m]
    /\ parsed_sections["practicum1"] = <<>>
    /\ parsed_sections["practicum2"] # <<>>

----------------------------------------------------------------------------
(* Properties of the rendered About region *)

\* The paragraphs of the About section of the source: the runs of lines
\* that are not blank, after the last About heading that has content and
\* before the next heading.
SourceAboutParagraphs(lines) ==
    LET full == {h \in HeadingsOf(lines, "about") : TextAfterHeading(lines, h) # <<>>}
        h == Greatest(full)
        next == {k \in (h + 1)..Len(lines) : IsHeadingLine(lines[k])}
        last == IF next = {} THEN Len(lines) ELSE Least(next) - 1
    IN  IF full = {} THEN {}
        ELSE {k \in (h + 1)..last :
                 /\ Strip(lines[k]) # <<>>
                 /\ (k = h + 1 \/ Strip(lines[k - 1]) = <<>>)}

\* C12.  The About region of a written page holds one <p> block for each
\* paragraph of the About section of the source, paragraphs being
\* separated by blank lines.
C12_OneBlockPerSourceParagraph ==
    (page.exists /\ parsed_sections["about"] # <<>>)
    => Cardinality({k \in 1..Len(page.about_html) : page.about_html[k] = POpen})
           = Cardinality(SourceAboutParagraphs(SplitLines(md_content)))

----------------------------------------------------------------------------
(* Properties of parse_project_section *)

PracticumKeys == {"practicum1", "practicum2"}

\* The labels that parse_project_section recognizes.
RecognizedLabels ==
    {"**Title:**", "**Tags:**", "**Abstract:**", "**Technologies Used:**", "**Technologies:**",
     "**Key Achievements:**", "**Links:**"}

\* The lines that begin with a recognized label.
LabelLines(lines) ==
    {k \in 1..Len(lines) : Strip(lines[k]) # <<>> /\ Strip(lines[k])[1] \in RecognizedLabels}

\* The lines that begin with the given label.
LinesOf(lines, label) == {k \in LabelLines(lines) : Strip(lines[k])[1] = label}

\* Line k stands under the label: the last label line before it is a line
\* of that label.
Under(lines, k, label) ==
    /\ \E j \in LabelLines(lines) : j < k
    /\ Greatest({j \in LabelLines(lines) : j < k}) \in LinesOf(lines, label)

\* The bullet lines under the label.
BulletsUnder(lines, label) ==
    {k \in 1..Len(lines) : IsBullet(Strip(lines[k])) /\ Under(lines, k, label)}

\* The text of the bullet of line k.
BulletText(lines, k) == Strip(Tail(Strip(lines[k])))

\* The texts, in order, of the lines chosen by keep; text(k) is the text
\* of line k.
ChosenTexts(lines, keep(_), text(_)) ==
    LET chosen == SelectSeq([k \in 1..Len(lines) |-> k], keep)
    IN  [n \in 1..Len(chosen) |-> text(chosen[n])]

\* ' '.join(parts)
RECURSIVE JoinBlank(_)
JoinBlank(parts) ==
    IF parts = <<>> THEN <<>>
    ELSE IF Len(parts) = 1 THEN parts[1]
    ELSE parts[1] \o <<SP>> \o JoinBlank(Tail(parts))

\* The abstract that the lines spell: the text on the Abstract label line
\* and every non-empty line after it that does not begin with a bold label,
\* up to the next recognized label.
SourceAbstract(lines) ==
    LET a == Greatest(LinesOf(lines, "**Abstract:**"))
        after == {k \in LabelLines(lines) : k > a}
        n == IF after = {} THEN Len(lines) + 1 ELSE Least(after)
        text(k) == IF k = a THEN Strip(Tail(Strip(lines[k]))) ELSE Strip(lines[k])
    IN  JoinBlank(ChosenTexts(lines,
                              LAMBDA k : /\ k >= a /\ k < n /\ text(k) # <<>>
                                         /\ (k = a \/ ~StartsBold(Strip(lines[k]))),
                              text))

\* C13.  The abstract of a parsed practicum section is the text on the
\* Abstract label line followed by every non-empty line that is not a label
\* between that line and the next recognized label: no line after that
\* label is added, and none before it is left out.
C13_AbstractUpToNextLabel ==
    Sectioned =>
        \A key \in PracticumKeys :
            LET lines == SplitLines(parsed_sections[key])
            IN  LinesOf(lines, "**Abstract:**") # {}
                => records[key].abstract = SourceAbstract(lines)

LinkKinds == {"github", "report", "slides", "demo"}

\* C14.  The achievements of a parsed practicum section are the bullets
\* that stand under the Key Achievements label with no other label line in
\* between, and a link field is set only from a bullet that stands under
\* the Links label with no other label line in between.
C14_BulletsUnderTheirLabel ==
    Sectioned =>
        \A key \in PracticumKeys :
            LET lines == SplitLines(parsed_sections[key])
            IN  /\ records[key].achievements
                      = ChosenTexts(lines,
                                    LAMBDA k : k \in BulletsUnder(lines, "**Key Achievements:**"),
                                    LAMBDA k : BulletText(lines, k))
                /\ \A kind \in LinkKinds :
                       records[key][kind] # Placeholder
                       => \E k \in BulletsUnder(lines, "**Links:**") :
                              /\ MarkdownLink(BulletText(lines, k)).found
                              /\ MarkdownLink(BulletText(lines, k)).url = records[key][kind]

\* The visible text of a bullet: what stands outside the target of its
\* markdown link.
VisibleText(text) ==
    LET closes(j) == {k \in (j + 1)..Len(text) : text[k] = RB}
        mids == {j \in 1..Len(text) : text[j] = MID /\ closes(j) # {}}
    IN  SelectSeq([k \in 1..Len(text) |->
                      IF \E j \in mids : j < k /\ k < Least(closes(j)) THEN "" ELSE text[k]],
                  LAMBDA t : t # "")

\* The kind that the visible text of a bullet names, the first keyword in
\* the order github, report, slide/presentation, demo.
VisibleKind(text) == LinkField(VisibleText(text))

\* C15.  Each link field of a parsed practicum section holds the URL of
\* the last bullet under the Links label whose visible text names the
\* field's kind first and which holds a markdown link, and '#' when there
\* is no such bullet.
C15_KeywordInVisibleText ==
    Sectioned =>
        \A key \in PracticumKeys : \A kind \in LinkKinds :
            LET lines == SplitLines(parsed_sections[key])
                named == {k \in BulletsUnder(lines, "**Links:**") :
                             /\ VisibleKind(BulletText(lines, k)) = kind
                             /\ MarkdownLink(BulletText(lines, k)).found}
            IN  records[key][kind]
                   = IF named = {} THEN Placeholder
                     ELSE MarkdownLink(BulletText(lines, Greatest(named))).url

\* The keywords of a kind of link.
KeywordsOfKind(kind) == IF kind = "slides" THEN {"slide", "presentation"} ELSE {kind}

\* C16.  A link field of a parsed practicum section is '#' unless a bullet
\* after a Links label line carries a keyword of the field's kind and a
\* markdown link.
C16_PlaceholderUnlessLinked ==
    Sectioned =>
        \A key \in PracticumKeys : \A kind \in LinkKinds :
            LET lines == SplitLines(parsed_sections[key])
            IN  records[key][kind] # Placeholder
                => \E k \in 1..Len(lines) :
                       /\ IsBullet(Strip(lines[k]))
                       /\ \E j \in LinesOf(lines, "**Links:**") : j < k
                       /\ \E keyword \in KeywordsOfKind(kind) : Has(BulletText(lines, k), keyword)
                       /\ MarkdownLink(BulletText(lines, k)).found

\* A practicum section whose Links field holds a GitHub bullet only has
\* been parsed: github is set, report, slides and demo are '#'.
C16_Witness ==
    /\ pc = "sectioned"
    /\ LET lines == SplitLines(parsed_sections["practicum1"])
       IN  /\ Cardinality(BulletsUnder(lines, "**Links:**")) = 1
           /\ \E k \in BulletsUnder(lines, "**Links:**") : Has(BulletText(lines, k), "github")
    /\ records["practicum1"].github = <<"https://github.com/ada/p">>
    /\ records["practicum1"].report = Placeholder
    /\ records["practicum1"].slides = Placeholder
    /\ records["practicum1"].demo = Placeholder

----------------------------------------------------------------------------
(* Properties of parse_skills_section and generate_skills_html *)

\* The category markers of the skills text, and the name of the marker of
\* line k.
MarkerLines(lines) == {k \in 1..Len(lines) : IsMarker(Strip(lines[k]))}

MarkerName(lines, k) == CategoryName(Strip(lines[k])[1])

\* The bullet items that follow the marker of line k up to the next marker.
ItemsAfter(lines, k) ==
    LET later == {j \in MarkerLines(lines) : j > k}
        next == IF later = {} THEN Len(lines) + 1 ELSE Least(later)
    IN  ChosenTexts(lines, LAMBDA j : j > k /\ j < next /\ IsBullet(Strip(lines[j])),
                    LAMBDA j : BulletText(lines, j))

\* The entries of the parsed skills are those of the markers, one for each
\* name.
OneEntryPerName(skills, lines) ==
    /\ {skills[n].category : n \in 1..Len(skills)}
          = {MarkerName(lines, k) : k \in MarkerLines(lines)}
    /\ \A n, m \in 1..Len(skills) : skills[n].category = skills[m].category => n = m

\* C17, as the spec states it.  Every category marker of a skills text is
\* mapped to the ordered list of the bullet items that follow it up to the
\* next marker; bullets before the first marker and lines that are not
\* bullets add nothing.
C17_EachMarkerKeepsItsItems ==
    Sectioned =>
        LET lines == SplitLines(parsed_sections["skills"])
            skills == records["skills"]
        IN  /\ OneEntryPerName(skills, lines)
            /\ \A k \in MarkerLines(lines) : \E n \in 1..Len(skills) :
                   /\ skills[n].category = MarkerName(lines, k)
                   /\ skills[n].items = ItemsAfter(lines, k)

\* C17.  The parsed skills hold one entry for each category name; the
\* entry lists, in order, the bullet items that follow the last marker of
\* that name up to the next marker, and no item when the name is empty.
\* Bullets before the first marker and lines that are not bullets add
\* nothing.
C17_LastMarkerOfNameKeepsItsItems ==
    Sectioned =>
        LET lines == SplitLines(parsed_sections["skills"])
            skills == records["skills"]
        IN  /\ OneEntryPerName(skills, lines)
            /\ \A k \in MarkerLines(lines) :
                   (\A j \in MarkerLines(lines) :
                        MarkerName(lines, j) = MarkerName(lines, k) => j <= k)
                   => \E n \in 1..Len(skills) :
                          /\ skills[n].category = MarkerName(lines, k)
                          /\ skills[n].items = IF MarkerName(lines, k) = "" THEN <<>>
                                               ELSE ItemsAfter(lines, k)

\* A skills text has been parsed in which a category is named twice, with
\* bullets under both markers: the entry holds the bullets of the second.
C17_Witness ==
    /\ pc = "sectioned"
    /\ LET lines == SplitLines(parsed_sections["skills"])
       IN  \E k, j \in MarkerLines(lines) :
               /\ k < j
               /\ MarkerName(lines, k) = MarkerName(lines, j)
               /\ ItemsAfter(lines, k) # <<>>
               /\ ItemsAfter(lines, j) # ItemsAfter(lines, k)
               /\ \E n \in 1..Len(records["skills"]) :
                      /\ records["skills"][n].category = MarkerName(lines, j)
                      /\ records["skills"][n].items = ItemsAfter(lines, j)

\* The positions of the cards of a skills region, in order.
CardsOf(html) ==
    SelectSeq([k \in 1..Len(html) |-> k], LAMBDA k : html[k] \in SkillCardOpens)

\* The category that the card at position c shows, and the skills it
\* lists: the tokens between the opening of the list and its closing tag.
CardCategory(html, c) == html[c + 3]

CardSkills(html, c) ==
    SubSeq(html, c + 6, Least({k \in (c + 6)..Len(html) : html[k] = PClose}) - 1)

\* The first three items at most, joined by ', '.
FirstThreeJoined(items) ==
    JoinComma([i \in 1..(IF Len(items) > 3 THEN 3 ELSE Len(items)) |-> items[i]])

\* C18.  The skills region of a written page holds one card for each
\* parsed category, in order, each showing the name of the category and its
\* first three skills at most, in their parsed order; when no skills were
\* parsed it is the default grid of four cards.
C18_OneCardPerCategory ==
    page.exists =>
        LET skills == records["skills"]
            html == page.skills_html
            cards == CardsOf(html)
        IN  IF skills = <<>> THEN html = DefaultSkillsGrid /\ Len(cards) = 4
            ELSE /\ Len(cards) = Len(skills)
                 /\ \A n \in 1..Len(skills) :
                        /\ CardCategory(html, cards[n]) = skills[n].category
                        /\ CardSkills(html, cards[n]) = FirstThreeJoined(skills[n].items)

\* A page has been written for a profile one of whose categories lists
\* more than three skills; its card shows three of them.
C18_Witness ==
    /\ page.exists
    /\ \E n \in 1..Len(records["skills"]) :
           /\ Len(records["skills"][n].items) > 3
           /\ Len(CardsOf(page.skills_html)) = Len(records["skills"])
           /\ CardSkills(page.skills_html, CardsOf(page.skills_html)[n])
                 = FirstThreeJoined(records["skills"][n].items)

----------------------------------------------------------------------------
(* Properties of parse_contact_section *)

\* The text is an e-mail address: word tokens and then a '@domain' token.
IsEmail(text) ==
    /\ Len(text) >= 2
    /\ text[Len(text)] \in DomainToks
    /\ \A i \in 1..(Len(text) - 1) : text[i] \in WordToks

\* The text stands on the line, one token after the other.
StandsOn(text, line) ==
    \E i \in 1..Len(line) :
        i + Len(text) - 1 <= Len(line) /\ SubSeq(line, i, i + Len(text) - 1) = text

\* Some line of the contact text holds one of the keywords.
SomeLineHas(lines, keywords) ==
    \E k \in 1..Len(lines) : \E keyword \in keywords : Has(lines[k], keyword)

\* C19.  In the record of a parsed contact section linkedin is '#' or holds
\* 'linkedin.com', github is '#' or holds 'github.com', portfolio is '#' or
\* the target of the markdown link, or a URL written out, on a line naming
\* a portfolio or website, and email is empty or an e-mail address; a field
\* differs from its default only when a line of the text names it.
C19_ContactFields ==
    Sectioned =>
        LET contact == records["contact"]
            lines == SplitLines(parsed_sections["contact"])
        IN  /\ contact.linkedin = Placeholder
               \/ (HasDomain(contact.linkedin, "linkedin.com")
                   /\ SomeLineHas(lines, {"linkedin"}))
            /\ contact.github = Placeholder
               \/ (HasDomain(contact.github, "github.com") /\ SomeLineHas(lines, {"github"}))
            /\ contact.portfolio = Placeholder
               \/ \E k \in 1..Len(lines) :
                      /\ Has(lines[k], "portfolio") \/ Has(lines[k], "website")
                      /\ \/ /\ MarkdownLink(lines[k]).found
                            /\ contact.portfolio = MarkdownLink(lines[k]).url
                         \/ /\ contact.portfolio # <<>>
                            /\ contact.portfolio[1] \in UrlToks
                            /\ StandsOn(contact.portfolio, lines[k])
            /\ contact.email = <<>>
               \/ (IsEmail(contact.email) /\ SomeLineHas(lines, {"email"}))

\* A contact section has been parsed that sets the four fields, the e-mail
\* address from a worldclass address.
C19_Witness ==
    /\ pc = "sectioned"
    /\ \E k \in 1..Len(parsed_sections["contact"]) :
           parsed_sections["contact"][k] = "@worldclass.regis.edu"
    /\ records["contact"].email = <<Username, "@regis.edu">>
    /\ records["contact"].linkedin # Placeholder
    /\ records["contact"].github # Placeholder
    /\ records["contact"].portfolio # Placeholder

----------------------------------------------------------------------------
(* Properties of the project cards *)

\* The position of the rest of the anchor that opens at position k: the
\* first token after the URL that is a button.
ButtonAt(html, k) == Least({j \in (k + 1)..Len(html) : html[j] \in Buttons \/ IsGreyed(html[j])})

\* C20.  In the project cards of a written page the button of a URL that
\* is the placeholder '#' is greyed out, and the button of any other URL is
\* an active link to that URL.
C20_PlaceholderButtonsAreGreyed ==
    page.exists =>
        LET html == page.project_html
        IN  \A k \in 1..Len(html) :
                html[k] = AOpen
                => LET b == ButtonAt(html, k)
                   IN  IF SubSeq(html, k + 1, b - 1) = Placeholder THEN IsGreyed(html[b])
                       ELSE html[b] \in Buttons

\* The positions at which the project cards of a projects region open.
ProjectCardsOf(html) ==
    SelectSeq([k \in 1..Len(html) |-> k], LAMBDA k : html[k] = ProjectCardOpen)

\* The title that the card opening at position c shows.
CardTitle(html, c) ==
    SubSeq(html, c + 2, Least({k \in (c + 2)..Len(html) : html[k] = ProjectTitleClose}) - 1)

\* The parsed titles that are not empty, Practicum I first.
TitlesToShow ==
    SelectSeq(<<records["practicum1"].title, records["practicum2"].title>>,
              LAMBDA title : title # <<>>)

\* C21.  The projects region of a written page holds exactly one card for
\* each practicum whose parsed title is not empty, the card of Practicum I
\* before the card of Practicum II, no card for a practicum whose title is
\* empty, and the placeholder block, alone, when there is no card.
C21_OneCardPerTitledPracticum ==
    page.exists =>
        LET html == page.project_html
            cards == ProjectCardsOf(html)
        IN  /\ Len(cards) = Len(TitlesToShow)
            /\ \A n \in 1..Len(cards) : CardTitle(html, cards[n]) = TitlesToShow[n]
            /\ IF TitlesToShow = <<>> THEN html = <<ProjectsSoon>>
               ELSE \A k \in 1..Len(html) : html[k] # ProjectsSoon

\* A page has been written for a profile whose Practicum II section stands
\* before its Practicum I section, both titled; the first of its two cards
\* is the card of Practicum I.
C21_Witness ==
    /\ pc = "finished"
    /\ page.exists
    /\ \E i, j \in 1..Len(md_content) :
           i < j /\ md_content[i] = H696 /\ md_content[j] = H692
    /\ records["practicum1"].title = <<"v">>
    /\ records["practicum2"].title = <<"W">>
    /\ Len(ProjectCardsOf(page.project_html)) = 2
    /\ CardTitle(page.project_html, ProjectCardsOf(page.project_html)[1]) = <<"v">>

----------------------------------------------------------------------------
(* Properties of sync_student_data *)

\* C22.  When the run has gone through a student whose profile has no
\* practicum section, or only practicum headings with nothing under them,
\* the page of the student has been written, each of its regions holds
\* something and its projects region is the placeholder block.
C22_PageWithoutPracticum ==
    (/\ pc = "finished"
     /\ parsed_sections["practicum1"] = <<>>
     /\ parsed_sections["practicum2"] = <<>>)
    => /\ page.exists
       /\ page.about_html # <<>>
       /\ page.skills_html # <<>>
       /\ page.project_html = <<ProjectsSoon>>

\* The Abstract label at line k of the section carries no text and the next
\* line is a Technologies label.
EmptyAbstractAt(lines, k) ==
    /\ Strip(lines[k]) = <<"**Abstract:**">>
    /\ k + 1 <= Len(lines)
    /\ \/ StartsWith(Strip(lines[k + 1]), "**Technologies Used:**")
       \/ StartsWith(Strip(lines[k + 1]), "**Technologies:**")

\* The token that follows the title of the card opening at position c.
CardDescription(html, c) ==
    html[Least({k \in (c + 2)..Len(html) : html[k] = ProjectTitleClose}) + 1]

\* The card of a practicum on a page: the first card for Practicum I, the
\* last one for Practicum II.
CardOf(html, key) ==
    IF key = "practicum1" THEN ProjectCardsOf(html)[1]
    ELSE ProjectCardsOf(html)[Len(ProjectCardsOf(html))]

\* C23.  A practicum section in which the Abstract label carries no text
\* and is followed immediately by a Technologies label is parsed to a record
\* whose abstract is empty, and its card, when the page is written, shows
\* the default sentence in place of the abstract.
C23_EmptyAbstractShowsDefault ==
    \A key \in PracticumKeys :
        Sectioned =>
            LET lines == SplitLines(parsed_sections[key])
            IN  (\E k \in 1..Len(lines) : EmptyAbstractAt(lines, k))
                => /\ records[key].abstract = <<>>
                   /\ (page.exists /\ records[key].title # <<>>)
                      => CardDescription(page.project_html, CardOf(page.project_html, key))
                            = DetailsSoon

\* create_html_page has been called in this run.
Rendered ==
    /\ pc \in {"finished", "synced"}
    /\ parsed_sections["practicum1"] # <<>> \/ parsed_sections["practicum2"] # <<>>

\* C24.  Two calls of create_html_page with the same metadata, the same
\* markdown content and the same student_files write the same page,
\* whatever else differs between them: the page of a later run equals the
\* page of the first run when the three arguments are equal.
C24_SameInputsSamePage ==
    (/\ sync_runs > 1
     /\ Rendered
     /\ first_run.page.exists
     /\ first_run.inputs = <<metadata, md_content, student_files>>)
    => page = first_run.page

\* The button of each kind of link.
ButtonOfKind ==
    [github |-> GithubButton, report |-> ReportButton, slides |-> PresentationButton]

\* The URL that the button of the card opening at position c points to.
ButtonUrl(html, c, button) ==
    LET b == Least({j \in c..Len(html) : html[j] = button})
        a == Greatest({k \in c..b : html[k] = AOpen})
    IN  SubSeq(html, a + 1, b - 1)

\* The URL found for a kind of link without the markdown: the one of the
\* JSON entry or of the file with the scaffolded name, or else the one of a
\* file of the student whose name fits.
AutoDetected(key, kind) ==
    LET project_num == IF key = "practicum1" THEN "1" ELSE "2"
        json_urls == get_project_urls_from_json(data_dir, key = "practicum1")
    IN  IF json_urls[kind] # Placeholder THEN json_urls[kind]
        ELSE IF kind = "report"
        THEN DetectedUrl(student_files.reports, "/reports/", project_num, {"report"})
        ELSE IF kind = "slides"
        THEN DetectedUrl(student_files.presentations, "/presentations/", project_num,
                         {"slides", "presentation"})
        ELSE Placeholder

\* C25.  On a page that has just been written, the GitHub, report and
\* slides buttons of the card of a practicum point to the URL that the
\* parsed section holds for that kind when it is not '#', and to the
\* auto-detected URL when it is '#'.
C25_MarkdownLinksHonoured ==
    (pc = "finished" /\ page.exists) =>
        \A key \in PracticumKeys : \A kind \in DOMAIN ButtonOfKind :
            records[key].title # <<>> =>
                LET shown == ButtonUrl(page.project_html, CardOf(page.project_html, key),
                                       ButtonOfKind[kind])
                IN  IF records[key][kind] # Placeholder THEN shown = records[key][kind]
                    ELSE shown = AutoDetected(key, kind)

\* C27.  A run of sync_student_data leaves data/ as it found it, the
\* student's entry in the course JSON with its github included, and a
\* second run on the same profile and files leaves the page that the first
\* run left, with the same URLs on its buttons.
C27_SecondRunSameAsFirst ==
    /\ pc = "synced" => data_dir = first_run.data
    /\ (sync_runs > 1 /\ pc = "synced") => page = first_run.page

----------------------------------------------------------------------------
(* Properties of process_csv_file *)

\* The number of lines of s that are the heading h.
HeadingCount(s, h) == Cardinality(HeadingLines(s, h))

WrittenProject ==
    LET key == IF row.course_info.course = "msds692" THEN "practicum1" ELSE "practicum2"
        body == parse_markdown_profile(profile.text).md_content
    IN  parse_project_section(parse_markdown_sections(body)[key])

\* C28.  After a row whose GitHub column is empty has been written, the
\* GitHub Repository link of its practicum section has the target '#', so
\* that parse_project_section gives github '#' for the section, as
\* generate_course_json gives '#' for the row.
C28_MissingGitHubStaysPlaceholder ==
    (outcome = "written" /\ Strip(row.csv_row.github) = <<>>) =>
        /\ WrittenProject.github = Placeholder
        /\ StudentJson(row.student_data).github = Placeholder

\* The number that the scaffolded files of a practicum carry.
ProjectNum(course_info) == IF course_info.course = "msds692" THEN "1" ELSE "2"

\* C29.  After a row has been written, the Project Report and Presentation
\* Slides links of its practicum section name the report and the slides
\* file that create_student_folder_structure has put into the student's
\* directory for that practicum.
C29_LinksNameScaffoldedFiles ==
    outcome = "written" =>
        LET n == ProjectNum(row.course_info)
        IN  /\ WrittenProject.report = <<"reports/", Username, "_practicum", n, "_report.pdf">>
            /\ WrittenProject.slides
                  = <<"presentations/", Username, "_practicum", n, "_slides.pdf">>
            /\ {WrittenProject.report, WrittenProject.slides} \subseteq example_files

\* C30.  Every row read so far has been counted once, in
\* students_processed or as one entry of errors, and the students of the
\* course JSON written at the end are as many as students_processed: no
\* row recorded as an error is among them.
C30_RowAccounting ==
    /\ students_processed + Len(errors) = rows
    /\ \A i, j \in 1..Len(errors) : errors[i] = errors[j] => i = j
    /\ json_file.done => Len(json_file.students) = students_processed

====
